---- MODULE Spec2Model ----
(***************************************************************************)
(* PolyVal: validation of a flat record against a declarative rule schema, *)
(* with localized messages resolved through an override tree.              *)
(*                                                                         *)
(* Strings are TLA+ strings (\o, Len and SubSeq work on them).  The        *)
(* Turkish catalog is written in ASCII: the parser accepts no letter       *)
(* outside Latin-1, so g-breve, dotless i, s-cedilla, c-cedilla, u/o       *)
(* umlaut and dotted capital I are written g, i, s, c, u, o and I.         *)
(***************************************************************************)
EXTENDS Integers, Sequences, FiniteSets, TLC

VARIABLES
    schema,          \* the rule schema: sequence of [name, cfg] (Object.entries order)
    data,            \* the record to validate: field name -> JS value
    options,         \* [lang, customMessages]
    pc,              \* validate: "idle" | "loop" | "returned" | "caught"
                     \* the other path: "idle" | "converted" | "parsed" | "translated" | "thrown"
    messages_,       \* the dictionary the running call fetched (local `messages`)
    i,               \* index of the schema entry the loop is at
    errors,          \* the local `errors` array of the running call
    result,          \* what the call returned
    emitted,         \* history: for each element of errors, its field and rule
    raised,          \* history: the exceptions raised during the call, in order
    calls,           \* history: the custom validators invoked, in order
    shape,           \* the other path: what buildZodSchema returned
    issues,          \* the other path: error.issues of safeParse
    translated,      \* the other path: what translateErrors returned
    earlier          \* history: language and overrides of the calls that ended before

vars == <<schema, data, options, pc, messages_, i, errors, result, emitted, raised, calls,
          shape, issues, translated, earlier>>

-----------------------------------------------------------------------------
(* JavaScript values.  One record shape for every kind, so that any two    *)
(* values can be compared with = as === compares them.                     *)

JS(k, s, n, b) == [kind |-> k, s |-> s, n |-> n, b |-> b]
Undefined == JS("undefined", "", 0, FALSE)
Null      == JS("null", "", 0, FALSE)
Str(s)    == JS("string", s, 0, FALSE)
Num(n)    == JS("number", "", n, FALSE)
Bool(b)   == JS("boolean", "", 0, b)
DateOf(t) == JS("date", "", t, FALSE)

\* typeof value
typeOf(v) == IF v.kind \in {"null", "date"} THEN "object" ELSE v.kind

\* s.charAt(k-1)
charAt(s, k) == IF k >= 1 /\ k <= Len(s) THEN SubSeq(s, k, k) ELSE ""

Lower == <<"a","b","c","d","e","f","g","h","i","j","k","l","m",
           "n","o","p","q","r","s","t","u","v","w","x","y","z">>
Upper == <<"A","B","C","D","E","F","G","H","I","J","K","L","M",
           "N","O","P","Q","R","S","T","U","V","W","X","Y","Z">>
Digits == {"0","1","2","3","4","5","6","7","8","9"}

\* c.toUpperCase() for a string of at most one character
toUpperCase(c) ==
    IF \E k \in 1..26 : Lower[k] = c
    THEN Upper[CHOOSE k \in 1..26 : Lower[k] = c]
    ELSE c

\* message.startsWith(prefix)
startsWith(s, prefix) ==
    Len(prefix) <= Len(s) /\ SubSeq(s, 1, Len(prefix)) = prefix

\* `${n}` for a number
numeral(n) == ToString(n)

-----------------------------------------------------------------------------
(* Message providers: the leaves of a dictionary or of the override tree.  *)
(* A leaf is absent, a literal string, or a function x => a + x + b.       *)

NoProv    == [tag |-> "none", a |-> "", b |-> ""]
Lit(s)    == [tag |-> "lit", a |-> s, b |-> ""]
Fn(a, b)  == [tag |-> "fn", a |-> a, b |-> b]

\* JavaScript truthiness of a leaf: undefined and "" are falsy
Truthy(p) == p.tag = "fn" \/ (p.tag = "lit" /\ p.a # "")

\* The outcome of an expression that may throw
Ok(s)  == [threw |-> FALSE, s |-> s]
Thrown == [threw |-> TRUE, s |-> ""]

\* p(arg): calling a leaf that is not a function is a TypeError
CallProv(p, arg) == IF p.tag = "fn" THEN Ok(p.a \o arg \o p.b) ELSE Thrown

\* `${p}`: a leaf used as a string; a function prints as its source text
AsString(p) ==
    IF p.tag = "fn" THEN Ok("(x) => " \o p.a \o "{x}" \o p.b)
    ELSE IF p.tag = "lit" THEN Ok(p.a) ELSE Ok("undefined")

\* typeof p === 'function' ? p(arg) : p
CallOrLiteral(p, arg) == IF p.tag = "fn" THEN CallProv(p, arg) ELSE AsString(p)

-----------------------------------------------------------------------------
(* The message catalog.  Every leaf is a provider; every group of a        *)
(* dictionary says whether the object holding it is defined.               *)

enMessages == [
    required     |-> Lit("This field is required"),
    invalid_type |-> Lit("Invalid type"),
    string |-> [
        defined  |-> TRUE,
        min      |-> Fn("Must be at least ", " characters long"),
        max      |-> Fn("Must not exceed ", " characters"),
        length   |-> Fn("Must be exactly ", " characters long"),
        email    |-> Lit("Invalid email address"),
        url      |-> Lit("Invalid URL"),
        uuid     |-> Lit("Invalid UUID"),
        cuid     |-> Lit("Invalid CUID"),
        datetime |-> Lit("Invalid datetime format"),
        ip       |-> Lit("Invalid IP address"),
        regex    |-> Lit("Invalid format"),
        startsWith |-> Fn("Must start with \"", "\""),
        endsWith   |-> Fn("Must end with \"", "\""),
        numeric  |-> Lit("Must contain only numeric characters") ],
    number |-> [
        defined  |-> TRUE,
        min |-> Fn("Must be at least ", ""),
        max |-> Fn("Must not exceed ", "") ],
    boolean |-> [
        defined  |-> TRUE,
        true  |-> Lit("Must be checked"),
        false |-> Lit("Must be unchecked") ],
    equals    |-> Fn("Must match the ", " field"),
    notEquals |-> Fn("Must not match the ", " field") ]

trMessages == [
    required     |-> Lit("Bu alan zorunludur"),
    invalid_type |-> Lit("Gecersiz tip"),
    string |-> [
        defined  |-> TRUE,
        min      |-> Fn("En az ", " karakter uzunlugunda olmalidir"),
        max      |-> Fn("En fazla ", " karakter uzunlugunda olmalidir"),
        length   |-> Fn("Tam olarak ", " karakter uzunlugunda olmalidir"),
        email    |-> Lit("Gecersiz e-posta adresi"),
        url      |-> Lit("Gecersiz URL"),
        uuid     |-> Lit("Gecersiz UUID"),
        cuid     |-> Lit("Gecersiz CUID"),
        datetime |-> Lit("Gecersiz tarih/saat formati"),
        ip       |-> Lit("Gecersiz IP adresi"),
        regex    |-> Lit("Gecersiz format"),
        startsWith |-> Fn("\"", "\" ile baslamalidir"),
        endsWith   |-> Fn("\"", "\" ile bitmelidir"),
        numeric  |-> Lit("Sadece sayisal karakterler icermelidir") ],
    number |-> [
        defined  |-> TRUE,
        min |-> Fn("En az ", " olmalidir"),
        max |-> Fn("En fazla ", " olmalidir") ],
    boolean |-> [
        defined  |-> TRUE,
        true  |-> Lit("Isaretli olmalidir"),
        false |-> Lit("Isaretli olmamalidir") ],
    equals    |-> Fn("", " alani ile eslesmelidir"),
    notEquals |-> Fn("", " alani ile eslesmemelidir") ]

\* What a property read of `messages` yields for a key the object literal
\* does not hold but inherits (messages.constructor, messages.toString, ...):
\* a truthy object with none of a dictionary's properties.
NotADictionary == [
    required     |-> NoProv,
    invalid_type |-> NoProv,
    string |-> [
        defined  |-> FALSE,
        min |-> NoProv, max |-> NoProv, length |-> NoProv, email |-> NoProv,
        url |-> NoProv, uuid |-> NoProv, cuid |-> NoProv, datetime |-> NoProv,
        ip |-> NoProv, regex |-> NoProv, startsWith |-> NoProv,
        endsWith |-> NoProv, numeric |-> NoProv ],
    number  |-> [ defined |-> FALSE, min |-> NoProv, max |-> NoProv ],
    boolean |-> [ defined |-> FALSE, true |-> NoProv, false |-> NoProv ],
    equals    |-> NoProv,
    notEquals |-> NoProv ]

\* The keys every object literal inherits from Object.prototype
InheritedKeys == {"constructor", "toString", "__proto__"}

\* The language map: an object literal with the keys en and tr
messages ==
    [l \in {"en", "tr"} \cup InheritedKeys |->
        IF l = "en" THEN enMessages
        ELSE IF l = "tr" THEN trMessages
        ELSE NotADictionary]

DEFAULT_LANGUAGE == "en"

\* A variant that gives the English dictionary whatever the code
getMessagesInEnglish(lang) == enMessages

\* messages[lang] || messages[DEFAULT_LANGUAGE]
getMessages(lang) ==
    IF lang \in DOMAIN messages THEN messages[lang] ELSE messages[DEFAULT_LANGUAGE]

-----------------------------------------------------------------------------
(* Field rules (SimpleValidationSchema) *)

NoNum   == [has |-> FALSE, n |-> 0]
Some(n) == [has |-> TRUE, n |-> n]

NoEquals       == [k |-> "none", f |-> "", b |-> FALSE]
EqualsField(t) == [k |-> "field", f |-> t, b |-> FALSE]
EqualsBool(b)  == [k |-> "bool", f |-> "", b |-> b]

\* A field rule with no optional key set
Rule(t) == [
    type |-> t, required |-> FALSE,
    min |-> NoNum, max |-> NoNum, length |-> NoNum,
    email |-> FALSE, regex |-> "",
    equals |-> NoEquals, notEquals |-> "",
    customValidators |-> <<>> ]

-----------------------------------------------------------------------------
(* Regular expressions.  new RegExp(source) is modelled for the sources    *)
(* the schemas use: two character-class patterns and one that does not     *)
(* compile.                                                                *)

LowerPattern == "^[a-z]+$"
DigitPattern == "^[0-9]+$"
BadPattern   == "("

\* new RegExp(source) returns (TRUE) or throws a SyntaxError (FALSE)
regexCompiles(source) == source # BadPattern

allIn(s, set) == \A k \in 1..Len(s) : charAt(s, k) \in set

\* new RegExp(source).test(s)
regexTest(source, s) ==
    IF source = LowerPattern THEN Len(s) > 0 /\ allIn(s, {Lower[k] : k \in 1..26})
    ELSE IF source = DigitPattern THEN Len(s) > 0 /\ allIn(s, Digits)
    ELSE FALSE

\* [^\s@]+ matches s[a..b] whole
noSpaceNoAt(s, a, b) ==
    a <= b /\ \A k \in a..b : charAt(s, k) \notin {" ", "@"}

\* /^[^\s@]+@[^\s@]+\.[^\s@]+$/.test(s)
emailRegexTest(s) ==
    \E at \in 1..Len(s) : \E dot \in 1..Len(s) :
        /\ charAt(s, at) = "@"
        /\ charAt(s, dot) = "."
        /\ noSpaceNoAt(s, 1, at - 1)
        /\ noSpaceNoAt(s, at + 1, dot - 1)
        /\ noSpaceNoAt(s, dot + 1, Len(s))

-----------------------------------------------------------------------------
(* Custom validators: the predicates the schemas carry *)

\* String(value)
show(v) ==
    IF v.kind = "string" THEN v.s
    ELSE IF v.kind = "number" THEN numeral(v.n)
    ELSE IF v.kind = "boolean" THEN (IF v.b THEN "true" ELSE "false")
    ELSE v.kind

Returned(v) == [threw |-> FALSE, ret |-> v]
Threw       == [threw |-> TRUE, ret |-> Undefined]

\* validator.validator(value, data)
\*   noAdmin:  value.toLowerCase() === 'admin' ? 'Cannot use admin as username' : undefined
\*   reject:   () => 'Rejected'
\*   boom:     () => { throw new Error() }
invoke(fn, value, d) ==
    IF fn = "noAdmin" THEN
        IF value.kind # "string" THEN Threw
        ELSE IF value.s = "admin" THEN Returned(Str("Cannot use admin as username"))
        ELSE Returned(Undefined)
    ELSE IF fn = "reject" THEN Returned(Str("Rejected"))
    ELSE Threw

\* A message provider of a custom validator, called with (value, data): the
\* providers explored print the value and, in brackets, data.pw
CallProv2(p, value, d) ==
    IF p.tag = "fn"
    THEN Ok(p.a \o show(value) \o p.b \o " (" \o show(d["pw"]) \o ")")
    ELSE Thrown

\* typeof p === 'function' ? p(value, data) : p
CallOrLiteral2(p, value, d) == IF p.tag = "fn" THEN CallProv2(p, value, d) ELSE AsString(p)

-----------------------------------------------------------------------------
(* The override tree (CustomMessages).  An absent subtree reads as absent  *)
(* leaves: every read in validate goes through ?. chains.                  *)

\* customMessages?.fields?.[fieldName]?.[key]
fieldLeaf(cm, fieldName, key) ==
    IF fieldName \in DOMAIN cm.fields /\ key \in DOMAIN cm.fields[fieldName]
    THEN cm.fields[fieldName][key] ELSE NoProv

\* customMessages?.custom?.[key]
customLeaf(cm, key) == IF key \in DOMAIN cm.custom THEN cm.custom[key] ELSE NoProv

-----------------------------------------------------------------------------
(* validate: message selection *)

\* fieldName.charAt(0).toUpperCase() + fieldName.slice(1)
formattedFieldName(fieldName) ==
    toUpperCase(charAt(fieldName, 1)) \o SubSeq(fieldName, 2, Len(fieldName))

\* A variant that prefers the general override to the field's
requiredMessageGeneralFirst(fieldName, msgs, cm) ==
    IF Truthy(cm.required) THEN AsString(cm.required)
    ELSE IF Truthy(fieldLeaf(cm, fieldName, "required"))
    THEN AsString(fieldLeaf(cm, fieldName, "required"))
    ELSE AsString(msgs.required)

\* The message of a missing required field
requiredMessage(fieldName, msgs, cm) ==
    IF Truthy(fieldLeaf(cm, fieldName, "required"))
    THEN AsString(fieldLeaf(cm, fieldName, "required"))
    ELSE IF Truthy(cm.required) THEN AsString(cm.required)
    ELSE AsString(msgs.required)

\* The message of a type mismatch
invalidTypeMessage(fieldName, msgs, cm) ==
    IF Truthy(cm.invalid_type) THEN AsString(cm.invalid_type)
    ELSE AsString(msgs.invalid_type)

\* The "priority order" of a rule whose message takes a parameter:
\* field-based leaf, else type-based leaf, else the dictionary's
calledMessage(fieldBased, typeBased, group, default, arg) ==
    IF Truthy(fieldBased) THEN CallProv(fieldBased, arg)
    ELSE IF Truthy(typeBased) THEN CallProv(typeBased, arg)
    ELSE IF ~group.defined THEN Thrown
    ELSE CallProv(default, arg)

\* A variant that prefers the type-level override to the field's
plainMessageTypeFirst(fieldBased, typeBased, group, default) ==
    IF Truthy(typeBased) THEN AsString(typeBased)
    ELSE IF Truthy(fieldBased) THEN AsString(fieldBased)
    ELSE IF ~group.defined THEN Thrown
    ELSE AsString(default)

\* The "priority order" of a rule whose message is a plain string
plainMessage(fieldBased, typeBased, group, default) ==
    IF Truthy(fieldBased) THEN AsString(fieldBased)
    ELSE IF Truthy(typeBased) THEN AsString(typeBased)
    ELSE IF ~group.defined THEN Thrown
    ELSE AsString(default)

\* A variant that prefers the general override to the field's
comparisonMessageGeneralFirst(fieldBased, general, default, targetField) ==
    IF Truthy(general) THEN CallProv(general, targetField)
    ELSE IF Truthy(fieldBased) THEN CallOrLiteral(fieldBased, targetField)
    ELSE CallProv(default, targetField)

\* The message of a failed equals / notEquals against another field
comparisonMessage(fieldBased, general, default, targetField) ==
    IF Truthy(fieldBased) THEN CallOrLiteral(fieldBased, targetField)
    ELSE IF Truthy(general) THEN CallProv(general, targetField)
    ELSE CallProv(default, targetField)

\* A variant that takes the text of the other boolean
booleanMessageSwapped(expected, msgs) ==
    IF expected
    THEN (IF msgs.boolean.defined /\ Truthy(msgs.boolean.false)
          THEN AsString(msgs.boolean.false) ELSE Ok("Must be false"))
    ELSE (IF msgs.boolean.defined /\ Truthy(msgs.boolean.true)
          THEN AsString(msgs.boolean.true) ELSE Ok("Must be true"))

\* fieldConfig.equals ? (messages.boolean?.true || "Must be true")
\*                    : (messages.boolean?.false || "Must be false")
booleanMessage(expected, msgs) ==
    IF expected
    THEN (IF msgs.boolean.defined /\ Truthy(msgs.boolean.true)
          THEN AsString(msgs.boolean.true) ELSE Ok("Must be true"))
    ELSE (IF msgs.boolean.defined /\ Truthy(msgs.boolean.false)
          THEN AsString(msgs.boolean.false) ELSE Ok("Must be false"))

\* A variant that prefers the global override to the field's
customMessageGlobalFirst(validator, returned, fieldName, value, d, cm) ==
    IF validator.messageKey # "" /\ Truthy(customLeaf(cm, validator.messageKey))
    THEN CallOrLiteral2(customLeaf(cm, validator.messageKey), value, d)
    ELSE IF validator.messageKey # "" /\ Truthy(fieldLeaf(cm, fieldName, validator.messageKey))
    THEN CallOrLiteral2(fieldLeaf(cm, fieldName, validator.messageKey), value, d)
    ELSE Ok(show(returned))

\* A variant that looks the override up whether or not the validator names a key
customMessageAnyKey(validator, returned, fieldName, value, d, cm) ==
    IF Truthy(fieldLeaf(cm, fieldName, "noAdminUsername"))
    THEN CallOrLiteral2(fieldLeaf(cm, fieldName, "noAdminUsername"), value, d)
    ELSE IF Truthy(customLeaf(cm, "noAdminUsername"))
    THEN CallOrLiteral2(customLeaf(cm, "noAdminUsername"), value, d)
    ELSE Ok(show(returned))

\* The message of a custom validator that returned `returned`
customMessage(validator, returned, fieldName, value, d, cm) ==
    IF validator.messageKey # "" /\ Truthy(fieldLeaf(cm, fieldName, validator.messageKey))
    THEN CallOrLiteral2(fieldLeaf(cm, fieldName, validator.messageKey), value, d)
    ELSE IF validator.messageKey # "" /\ Truthy(customLeaf(cm, validator.messageKey))
    THEN CallOrLiteral2(customLeaf(cm, validator.messageKey), value, d)
    ELSE Ok(show(returned))

-----------------------------------------------------------------------------
(* validate: the body of the loop over the schema's entries.  acc is the   *)
(* call's progress: the errors array, the histories, and whether an        *)
(* exception is propagating to the handler of validate.                    *)

GenericError == "An unexpected validation error occurred"
RegexError   == "Invalid regex pattern"

\* errors.push(`${formattedFieldName}: ${errorMessage}`); the history notes the
\* rule, and for a custom validator its place in customValidators
pushError(acc, fieldName, rule, message) ==
    [acc EXCEPT
        !.errors  = Append(@, formattedFieldName(fieldName) \o ": " \o message),
        !.emitted = Append(@, [field |-> fieldName, rule |-> rule,
                               index |-> IF rule = "custom" THEN acc.calls[Len(acc.calls)].index
                                         ELSE 0])]

\* An exception raised while the rule `rule` of fieldName is evaluated
throw(acc, fieldName, rule) ==
    [acc EXCEPT !.threw = TRUE,
                !.raised = Append(@, [field |-> fieldName, rule |-> rule])]

\* if (violated) { errorMessage = ...; errors.push(...) }
check(acc, violated, fieldName, rule, message) ==
    IF acc.threw \/ ~violated THEN acc
    ELSE IF message.threw THEN throw(acc, fieldName, rule)
    ELSE pushError(acc, fieldName, rule, message.s)

\* A variant that also rejects a string of exactly min characters
stringTooShortOrExact(fieldConfig, value) ==
    fieldConfig.min.has /\ Len(value.s) <= fieldConfig.min.n

\* value.length < fieldConfig.min
stringTooShort(fieldConfig, value) ==
    fieldConfig.min.has /\ Len(value.s) < fieldConfig.min.n

\* value.length > fieldConfig.max
stringTooLong(fieldConfig, value) ==
    fieldConfig.max.has /\ Len(value.s) > fieldConfig.max.n

\* value.length !== fieldConfig.length
stringWrongLength(fieldConfig, value) ==
    fieldConfig.length.has /\ Len(value.s) # fieldConfig.length.n

\* A variant without the rule's own try/catch: what is thrown leaves the loop
regexRulePropagates(acc, fieldName, fieldConfig, value, msgs, cm) ==
    IF acc.threw \/ fieldConfig.regex = "" THEN acc
    ELSE IF ~regexCompiles(fieldConfig.regex) THEN throw(acc, fieldName, "compile")
    ELSE check(acc, ~regexTest(fieldConfig.regex, value.s), fieldName, "regex",
               plainMessage(fieldLeaf(cm, fieldName, "regex"), cm.string.regex,
                            msgs.string, msgs.string.regex))

\* The regex rule, with its own try/catch: whatever is thrown inside is
\* caught and reported as the fixed message
regexRule(acc, fieldName, fieldConfig, value, msgs, cm) ==
    IF acc.threw \/ fieldConfig.regex = "" THEN acc
    ELSE IF ~regexCompiles(fieldConfig.regex)
    THEN pushError([acc EXCEPT !.raised = Append(@, [field |-> fieldName, rule |-> "regex"])],
                   fieldName, "regex_error", RegexError)
    ELSE IF regexTest(fieldConfig.regex, value.s) THEN acc
    ELSE LET m == plainMessage(fieldLeaf(cm, fieldName, "regex"), cm.string.regex,
                               msgs.string, msgs.string.regex)
         IN IF m.threw
            THEN pushError([acc EXCEPT !.raised =
                                Append(@, [field |-> fieldName, rule |-> "regex"])],
                           fieldName, "regex_error", RegexError)
            ELSE pushError(acc, fieldName, "regex", m.s)

\* String validations
stringRules(acc, fieldName, fieldConfig, value, msgs, cm) ==
    IF fieldConfig.type # "string" THEN acc
    ELSE
    LET a1 == check(acc, stringTooShort(fieldConfig, value), fieldName, "min",
                    calledMessage(fieldLeaf(cm, fieldName, "min"), cm.string.min,
                                  msgs.string, msgs.string.min, numeral(fieldConfig.min.n)))
        a2 == check(a1, stringTooLong(fieldConfig, value), fieldName, "max",
                    calledMessage(fieldLeaf(cm, fieldName, "max"), cm.string.max,
                                  msgs.string, msgs.string.max, numeral(fieldConfig.max.n)))
        a3 == check(a2, stringWrongLength(fieldConfig, value), fieldName, "length",
                    calledMessage(fieldLeaf(cm, fieldName, "length"), cm.string.length,
                                  msgs.string, msgs.string.length,
                                  numeral(fieldConfig.length.n)))
        a4 == check(a3, fieldConfig.email /\ ~emailRegexTest(value.s), fieldName, "email",
                    plainMessage(fieldLeaf(cm, fieldName, "email"), cm.string.email,
                                 msgs.string, msgs.string.email))
    IN regexRule(a4, fieldName, fieldConfig, value, msgs, cm)

\* Number validations
numberRules(acc, fieldName, fieldConfig, value, msgs, cm) ==
    IF fieldConfig.type # "number" THEN acc
    ELSE
    LET a1 == check(acc, fieldConfig.min.has /\ value.n < fieldConfig.min.n,
                    fieldName, "min",
                    calledMessage(fieldLeaf(cm, fieldName, "min"), cm.number.min,
                                  msgs.number, msgs.number.min, numeral(fieldConfig.min.n)))
    IN check(a1, fieldConfig.max.has /\ value.n > fieldConfig.max.n,
             fieldName, "max",
             calledMessage(fieldLeaf(cm, fieldName, "max"), cm.number.max,
                           msgs.number, msgs.number.max, numeral(fieldConfig.max.n)))

\* Equality validation
equalsRule(acc, fieldName, fieldConfig, value, d, msgs, cm) ==
    IF fieldConfig.equals.k = "field"
    THEN check(acc, d[fieldConfig.equals.f] # value, fieldName, "equals",
               comparisonMessage(fieldLeaf(cm, fieldName, "equals"), cm.equals,
                                 msgs.equals, fieldConfig.equals.f))
    ELSE IF fieldConfig.equals.k = "bool"
    THEN check(acc, value # Bool(fieldConfig.equals.b), fieldName, "equals",
               booleanMessage(fieldConfig.equals.b, msgs))
    ELSE acc

\* Inequality validation
notEqualsRule(acc, fieldName, fieldConfig, value, d, msgs, cm) ==
    IF fieldConfig.notEquals = "" THEN acc
    ELSE check(acc, d[fieldConfig.notEquals] = value, fieldName, "notEquals",
               comparisonMessage(fieldLeaf(cm, fieldName, "notEquals"), cm.notEquals,
                                 msgs.notEquals, fieldConfig.notEquals))

\* A variant that invokes the validator a second time
customValidatorCalledTwice(acc, fieldName, k, validator, value, d, cm) ==
    IF acc.threw THEN acc
    ELSE LET once == [field |-> fieldName, index |-> k, value |-> value, record |-> d]
             called == [acc EXCEPT !.calls = Append(Append(@, once), once)]
             validationResult == invoke(validator.validator, value, d)
         IN IF validationResult.threw THEN throw(called, fieldName, "custom")
            ELSE check(called, validationResult.ret # Undefined, fieldName, "custom",
                       customMessage(validator, validationResult.ret, fieldName, value, d, cm))

\* One turn of the loop over fieldConfig.customValidators
customValidator(acc, fieldName, k, validator, value, d, cm) ==
    IF acc.threw THEN acc
    ELSE LET called == [acc EXCEPT !.calls =
                            Append(@, [field |-> fieldName, index |-> k, value |-> value,
                                       record |-> d])]
             validationResult == invoke(validator.validator, value, d)
         IN IF validationResult.threw THEN throw(called, fieldName, "custom")
            ELSE check(called, validationResult.ret # Undefined, fieldName, "custom",
                       customMessage(validator, validationResult.ret, fieldName, value, d, cm))

RECURSIVE customRules(_, _, _, _, _, _, _)
\* Custom validations: for (const validator of fieldConfig.customValidators), from the k-th on
customRules(acc, fieldName, validators, k, value, d, cm) ==
    IF k > Len(validators) THEN acc
    ELSE customRules(customValidator(acc, fieldName, k, validators[k], value, d, cm),
                     fieldName, validators, k + 1, value, d, cm)

\* A variant that takes the empty string for a value
missingRequiredButEmpty(fieldConfig, value) ==
    fieldConfig.required /\ (value = Undefined \/ value = Null)

\* fieldConfig.required && (value === undefined || value === null || value === '')
missingRequired(fieldConfig, value) ==
    fieldConfig.required /\ (value = Undefined \/ value = Null \/ value = Str(""))

\* A variant that takes the empty string for an absent value
absentOrEmpty(value) == value = Undefined \/ value = Null \/ value = Str("")

\* value === undefined || value === null
absent(value) == value = Undefined \/ value = Null

\* The type check's switch: typeError
typeError(fieldConfig, value) ==
    \/ fieldConfig.type = "string"  /\ typeOf(value) # "string"
    \/ fieldConfig.type = "number"  /\ typeOf(value) # "number"
    \/ fieldConfig.type = "boolean" /\ typeOf(value) # "boolean"
    \/ fieldConfig.type = "date"    /\ value.kind # "date"

\* A variant that runs the custom validators before the comparisons
fieldRulesCustomFirst(acc, fieldName, fieldConfig, value, d, msgs, cm) ==
    notEqualsRule(
        equalsRule(
            customRules(
                numberRules(
                    stringRules(acc, fieldName, fieldConfig, value, msgs, cm),
                    fieldName, fieldConfig, value, msgs, cm),
                fieldName, fieldConfig.customValidators, 1, value, d, cm),
            fieldName, fieldConfig, value, d, msgs, cm),
        fieldName, fieldConfig, value, d, msgs, cm)

\* Everything after the type check, for a present value of the declared type
fieldRules(acc, fieldName, fieldConfig, value, d, msgs, cm) ==
    customRules(
        notEqualsRule(
            equalsRule(
                numberRules(
                    stringRules(acc, fieldName, fieldConfig, value, msgs, cm),
                    fieldName, fieldConfig, value, msgs, cm),
                fieldName, fieldConfig, value, d, msgs, cm),
            fieldName, fieldConfig, value, d, msgs, cm),
        fieldName, fieldConfig.customValidators, 1, value, d, cm)

\* A variant that goes on to the rules of the field after a type error
loopBodyNoContinue(acc, fieldName, fieldConfig, d, msgs, cm) ==
    LET value == d[fieldName] IN
    IF missingRequired(fieldConfig, value)
    THEN check(acc, TRUE, fieldName, "required", requiredMessage(fieldName, msgs, cm))
    ELSE IF absent(value) THEN acc
    ELSE IF typeError(fieldConfig, value)
    THEN fieldRules(check(acc, TRUE, fieldName, "invalid_type",
                          invalidTypeMessage(fieldName, msgs, cm)),
                    fieldName, fieldConfig, value, d, msgs, cm)
    ELSE fieldRules(acc, fieldName, fieldConfig, value, d, msgs, cm)

\* A variant that checks no further field once a failure is recorded
loopBodyStopsAfterFailure(acc, fieldName, fieldConfig, d, msgs, cm) ==
    LET value == d[fieldName] IN
    IF acc.errors # <<>> THEN acc
    ELSE IF missingRequired(fieldConfig, value)
    THEN check(acc, TRUE, fieldName, "required", requiredMessage(fieldName, msgs, cm))
    ELSE IF absent(value) THEN acc
    ELSE IF typeError(fieldConfig, value)
    THEN check(acc, TRUE, fieldName, "invalid_type", invalidTypeMessage(fieldName, msgs, cm))
    ELSE fieldRules(acc, fieldName, fieldConfig, value, d, msgs, cm)

\* A variant that goes on to the type check when the value is absent
loopBodyChecksAbsent(acc, fieldName, fieldConfig, d, msgs, cm) ==
    LET value == d[fieldName] IN
    IF missingRequired(fieldConfig, value)
    THEN check(acc, TRUE, fieldName, "required", requiredMessage(fieldName, msgs, cm))
    ELSE IF typeError(fieldConfig, value)
    THEN check(acc, TRUE, fieldName, "invalid_type", invalidTypeMessage(fieldName, msgs, cm))
    ELSE IF absent(value) THEN acc
    ELSE fieldRules(acc, fieldName, fieldConfig, value, d, msgs, cm)

\* The body of for (const [fieldName, fieldConfig] of Object.entries(schema))
loopBody(acc, fieldName, fieldConfig, d, msgs, cm) ==
    LET value == d[fieldName] IN
    IF missingRequired(fieldConfig, value)
    THEN check(acc, TRUE, fieldName, "required", requiredMessage(fieldName, msgs, cm))
    ELSE IF absent(value) THEN acc
    ELSE IF typeError(fieldConfig, value)
    THEN check(acc, TRUE, fieldName, "invalid_type", invalidTypeMessage(fieldName, msgs, cm))
    ELSE fieldRules(acc, fieldName, fieldConfig, value, d, msgs, cm)

\* The call's progress when the loop starts
start == [errors |-> <<>>, emitted |-> <<>>, raised |-> <<>>, calls |-> <<>>, threw |-> FALSE]

RECURSIVE loop(_, _, _, _, _, _)
\* The loop from the k-th entry on; an exception leaves it at once
loop(acc, sch, k, d, msgs, cm) ==
    IF acc.threw \/ k > Len(sch) THEN acc
    ELSE loop(loopBody(acc, sch[k].name, sch[k].cfg, d, msgs, cm), sch, k + 1, d, msgs, cm)

\* validate(schema, data, options): the returned array
validate(sch, d, opts) ==
    LET acc == loop(start, sch, 1, d, getMessages(opts.lang), opts.customMessages)
    IN IF acc.threw THEN <<GenericError>> ELSE acc.errors

-----------------------------------------------------------------------------
(* The other path: buildZodSchema, the library's safeParse, translateErrors *)

\* One check chained on a library schema node
Check(kind, n, source) == [kind |-> kind, n |-> n, source |-> source]

\* The checks buildZodSchema chains on the node of a field, in its order
checksOf(fieldConfig) ==
    IF fieldConfig.type = "string" THEN
        (IF fieldConfig.email THEN << Check("email", 0, "") >> ELSE <<>>)
        \o (IF fieldConfig.min.has THEN << Check("min", fieldConfig.min.n, "") >> ELSE <<>>)
        \o (IF fieldConfig.max.has THEN << Check("max", fieldConfig.max.n, "") >> ELSE <<>>)
        \o (IF fieldConfig.length.has
            THEN << Check("length", fieldConfig.length.n, "") >> ELSE <<>>)
        \o (IF fieldConfig.regex # ""
            THEN << Check("regex", 0, fieldConfig.regex) >> ELSE <<>>)
    ELSE IF fieldConfig.type \in {"number", "date"} THEN
        (IF fieldConfig.min.has THEN << Check("min", fieldConfig.min.n, "") >> ELSE <<>>)
        \o (IF fieldConfig.max.has THEN << Check("max", fieldConfig.max.n, "") >> ELSE <<>>)
    ELSE <<>>

\* The node of a field: its base type, its checks, .optional() unless required
fieldSchema(fieldConfig) ==
    [type |-> fieldConfig.type, checks |-> checksOf(fieldConfig),
     optional |-> ~fieldConfig.required]

\* Whether the field's node is put in shape: a field with a boolean equals
\* is refined and then left out by the `continue`
inShape(fieldConfig) == fieldConfig.equals.k # "bool"

RECURSIVE shapeFrom(_, _)
\* shape, from the k-th entry of the schema on
shapeFrom(simpleSchema, k) ==
    IF k > Len(simpleSchema) THEN <<>>
    ELSE (IF inShape(simpleSchema[k].cfg)
          THEN << [name |-> simpleSchema[k].name,
                   node |-> fieldSchema(simpleSchema[k].cfg)] >>
          ELSE <<>>)
         \o shapeFrom(simpleSchema, k + 1)

\* buildZodSchema(simpleSchema): new RegExp throws on a pattern that does not
\* compile, and nothing catches it
buildZodSchema(simpleSchema) ==
    IF \E k \in 1..Len(simpleSchema) :
          /\ simpleSchema[k].cfg.type = "string"
          /\ simpleSchema[k].cfg.regex # ""
          /\ ~regexCompiles(simpleSchema[k].cfg.regex)
    THEN [threw |-> TRUE, shape |-> <<>>]
    ELSE [threw |-> FALSE, shape |-> shapeFrom(simpleSchema, 1)]

\* An issue of the library's issue list
Issue(code, path, type, minimum, maximum, validation, message) ==
    [code |-> code, path |-> path, type |-> type, minimum |-> minimum,
     maximum |-> maximum, validation |-> validation, message |-> message,
     messageKey |-> ""]

\* The library's name for the kind of a value
received(v) ==
    IF v = Undefined THEN "undefined" ELSE IF v = Null THEN "null" ELSE v.kind

\* The library's test of an email address: a local part, "@", labels ending
\* in a dot each, and a last label of two letters or more
zodEmailTest(s) ==
    LET letters == {Lower[k] : k \in 1..26} \cup {Upper[k] : k \in 1..26}
    IN \E a \in 2..(Len(s) - 3) :
        /\ charAt(s, a) = "@"
        /\ allIn(SubSeq(s, 1, a - 1), letters \cup Digits)
        /\ \E dot \in (a + 2)..(Len(s) - 2) :
              /\ charAt(s, dot) = "."
              /\ allIn(SubSeq(s, a + 1, dot - 1), letters \cup Digits)
              /\ allIn(SubSeq(s, dot + 1, Len(s)), letters)

\* The issue of one check that the value fails, if it fails it
checkIssue(chk, type, path, v) ==
    IF type = "string" THEN
        IF chk.kind = "email" /\ ~zodEmailTest(v.s)
        THEN << Issue("invalid_string", path, "", NoNum, NoNum, "email", "Invalid email") >>
        ELSE IF chk.kind = "min" /\ Len(v.s) < chk.n
        THEN << Issue("too_small", path, "string", Some(chk.n), NoNum, "",
                      "String must contain at least " \o numeral(chk.n)
                          \o " character(s)") >>
        ELSE IF chk.kind = "max" /\ Len(v.s) > chk.n
        THEN << Issue("too_big", path, "string", NoNum, Some(chk.n), "",
                      "String must contain at most " \o numeral(chk.n)
                          \o " character(s)") >>
        ELSE IF chk.kind = "length" /\ Len(v.s) < chk.n
        THEN << Issue("too_small", path, "string", Some(chk.n), NoNum, "",
                      "String must contain exactly " \o numeral(chk.n)
                          \o " character(s)") >>
        ELSE IF chk.kind = "length" /\ Len(v.s) > chk.n
        THEN << Issue("too_big", path, "string", NoNum, Some(chk.n), "",
                      "String must contain exactly " \o numeral(chk.n)
                          \o " character(s)") >>
        ELSE IF chk.kind = "regex" /\ ~regexTest(chk.source, v.s)
        THEN << Issue("invalid_string", path, "", NoNum, NoNum, "regex", "Invalid") >>
        ELSE <<>>
    ELSE IF chk.kind = "min" /\ v.n < chk.n
    THEN << Issue("too_small", path, type, Some(chk.n), NoNum, "",
                  (IF type = "date" THEN "Date" ELSE "Number")
                      \o " must be greater than or equal to " \o numeral(chk.n)) >>
    ELSE IF chk.kind = "max" /\ v.n > chk.n
    THEN << Issue("too_big", path, type, NoNum, Some(chk.n), "",
                  (IF type = "date" THEN "Date" ELSE "Number")
                      \o " must be less than or equal to " \o numeral(chk.n)) >>
    ELSE <<>>

RECURSIVE checkIssues(_, _, _, _, _)
\* The issues of the checks from the k-th on: every check is run
checkIssues(checks, k, type, path, v) ==
    IF k > Len(checks) THEN <<>>
    ELSE checkIssue(checks[k], type, path, v) \o checkIssues(checks, k + 1, type, path, v)

\* The issues of one field of the shape
parseField(node, path, v) ==
    IF v = Undefined /\ node.optional THEN <<>>
    ELSE IF v = Undefined
    THEN << Issue("invalid_type", path, "", NoNum, NoNum, "", "Required") >>
    ELSE IF received(v) # node.type
    THEN << Issue("invalid_type", path, "", NoNum, NoNum, "",
                  "Expected " \o node.type \o ", received " \o received(v)) >>
    ELSE checkIssues(node.checks, 1, node.type, path, v)

RECURSIVE parseFrom(_, _, _)
\* The issues of the fields of the shape from the k-th on, in the shape's order
parseFrom(shp, k, d) ==
    IF k > Len(shp) THEN <<>>
    ELSE parseField(shp[k].node, shp[k].name, d[shp[k].name])
         \o parseFrom(shp, k + 1, d)

\* schema.safeParse(data): error.issues, empty on success
safeParse(shp, d) == parseFrom(shp, 1, d)

\* message.startsWith(...) on a leaf: only a string has the method
asText(p) == IF p.tag = "lit" THEN Ok(p.a) ELSE Thrown

\* formatMessage(fieldName, message)
formatMessage(fieldName, message) ==
    IF message.threw THEN Thrown
    ELSE IF fieldName = "" THEN message
    ELSE IF startsWith(message.s, formattedFieldName(fieldName)) THEN message
    ELSE Ok(formattedFieldName(fieldName) \o ": " \o message.s)

\* typeof messageProvider === 'function' ? messageProvider(issue.path, issue.params)
\*                                       : messageProvider
providedMessage(messageProvider, issue) ==
    IF messageProvider.tag = "fn" THEN CallProv(messageProvider, issue.path)
    ELSE asText(messageProvider)

\* 1. and 3. A custom issue with a messageKey that leaf answers
customKeyMessage(issue, leaf) ==
    IF issue.code = "custom" /\ issue.messageKey # "" /\ Truthy(leaf)
    THEN << providedMessage(leaf, issue) >>
    ELSE <<>>

\* 2. Other field-based custom messages: what the switch returns, if it returns
fieldBasedMessage(issue, fieldMessages) ==
    IF issue.code = "too_small" /\ issue.type = "string" /\ Truthy(fieldMessages.min)
       /\ issue.minimum.has
    THEN << CallProv(fieldMessages.min, numeral(issue.minimum.n)) >>
    ELSE IF issue.code = "too_big" /\ issue.type = "string" /\ Truthy(fieldMessages.max)
            /\ issue.maximum.has
    THEN << CallProv(fieldMessages.max, numeral(issue.maximum.n)) >>
    ELSE IF issue.code = "invalid_string" /\ issue.validation = "email"
            /\ Truthy(fieldMessages.email)
    THEN << asText(fieldMessages.email) >>
    ELSE IF issue.code = "invalid_type" /\ Truthy(fieldMessages.invalid_type)
    THEN << asText(fieldMessages.invalid_type) >>
    ELSE <<>>

\* 4. Custom messages specific to general library validators
validatorMessage(issue, cm, fieldConfig) ==
    IF issue.code = "invalid_string" /\ issue.validation = "email" /\ Truthy(cm.string.email)
    THEN << asText(cm.string.email) >>
    ELSE IF issue.code = "invalid_string" /\ issue.validation = "regex"
            /\ Truthy(cm.string.regex)
    THEN << asText(cm.string.regex) >>
    ELSE IF issue.code = "too_small" /\ issue.type = "string" /\ Truthy(cm.string.min)
            /\ issue.minimum.has
    THEN << CallProv(cm.string.min, numeral(issue.minimum.n)) >>
    ELSE IF issue.code = "too_small" /\ issue.type = "number" /\ Truthy(cm.number.min)
            /\ issue.minimum.has
    THEN << CallProv(cm.number.min, numeral(issue.minimum.n)) >>
    ELSE IF issue.code = "too_big" /\ issue.type = "string" /\ Truthy(cm.string.max)
            /\ issue.maximum.has
    THEN << CallProv(cm.string.max, numeral(issue.maximum.n)) >>
    ELSE IF issue.code = "too_big" /\ issue.type = "number" /\ Truthy(cm.number.max)
            /\ issue.maximum.has
    THEN << CallProv(cm.number.max, numeral(issue.maximum.n)) >>
    ELSE IF issue.code = "custom" /\ fieldConfig.equals.k = "field" /\ Truthy(cm.equals)
    THEN << CallProv(cm.equals, fieldConfig.equals.f) >>
    ELSE IF issue.code = "custom" /\ fieldConfig.notEquals # "" /\ Truthy(cm.notEquals)
    THEN << CallProv(cm.notEquals, fieldConfig.notEquals) >>
    ELSE <<>>

\* 5. Custom messages specific to general Zod error types
generalMessage(issue, cm) ==
    IF issue.code = "invalid_type" /\ Truthy(cm.invalid_type)
    THEN << asText(cm.invalid_type) >>
    ELSE <<>>

\* messages.<group>.<key>: reading a key of a group that is undefined throws
groupLeaf(msgs, group, key) ==
    IF msgs[group].defined THEN << msgs[group][key] >> ELSE <<>>

\* 6. Default library messages in the selected language
defaultMessage(issue, msgs) ==
    IF issue.code = "invalid_type" THEN << asText(msgs.invalid_type) >>
    ELSE IF issue.code = "invalid_string" /\ issue.validation \in {"email", "regex"}
    THEN LET leaf == groupLeaf(msgs, "string", issue.validation)
         IN << IF leaf = <<>> THEN Thrown ELSE asText(leaf[1]) >>
    ELSE IF issue.code = "too_small" /\ issue.type \in {"string", "number"}
            /\ issue.minimum.has
    THEN LET leaf == groupLeaf(msgs, issue.type, "min")
         IN << IF leaf = <<>> THEN Thrown
               ELSE CallProv(leaf[1], numeral(issue.minimum.n)) >>
    ELSE IF issue.code = "too_big" /\ issue.type \in {"string", "number"}
            /\ issue.maximum.has
    THEN LET leaf == groupLeaf(msgs, issue.type, "max")
         IN << IF leaf = <<>> THEN Thrown
               ELSE CallProv(leaf[1], numeral(issue.maximum.n)) >>
    ELSE <<>>

\* schema[fieldName], with no rule for a name the schema does not have
schemaRule(sch, name) ==
    IF \E k \in 1..Len(sch) : sch[k].name = name
    THEN sch[CHOOSE k \in 1..Len(sch) : sch[k].name = name].cfg
    ELSE Rule("")

\* getTranslatedMessage(issue, fieldName, lang, customMessages, messages, schema):
\* the first level of the priority order that returns
getTranslatedMessage(issue, name, cm, msgs, sch) ==
    LET levels ==
            customKeyMessage(issue, fieldLeaf(cm, name, issue.messageKey))
            \o (IF name \in DOMAIN cm.fields
                THEN fieldBasedMessage(issue, cm.fields[name]) ELSE <<>>)
            \o customKeyMessage(issue, customLeaf(cm, issue.messageKey))
            \o validatorMessage(issue, cm, schemaRule(sch, name))
            \o generalMessage(issue, cm)
            \o defaultMessage(issue, msgs)
            \o << Ok(issue.message) >>
    IN formatMessage(name, levels[1])

RECURSIVE translateFrom(_, _, _, _, _, _)
\* The loop of translateErrors from the k-th issue on: a message is pushed if
\* it is not empty, an exception leaves the loop
translateFrom(acc, list, k, cm, msgs, sch) ==
    IF acc.threw \/ k > Len(list) THEN acc
    ELSE LET message == getTranslatedMessage(list[k], list[k].path, cm, msgs, sch)
         IN translateFrom(
                IF message.threw THEN [acc EXCEPT !.threw = TRUE]
                ELSE IF message.s # "" THEN [acc EXCEPT !.result = Append(@, message.s)]
                ELSE acc,
                list, k + 1, cm, msgs, sch)

\* translateErrors(error, lang, customMessages, schema)
translateErrors(list, lang, cm, sch) ==
    translateFrom([threw |-> FALSE, result |-> <<>>], list, 1, cm, getMessages(lang), sch)

-----------------------------------------------------------------------------
(* The inputs of the calls that are explored *)

MaxNum   == 3     \* rule parameters and numbers range over 0..MaxNum
MaxRules == 2     \* optional rules set on one field

Params == {1, MaxNum}

\* All keys of the data record
DataKeys == {"user", "pw", "age", "ok", "born"}

\* The messageKey the validators carry
MessageKeys == {"noAdminUsername"}

Validators == {
    [validator |-> "noAdmin", messageKey |-> "noAdminUsername"],
    [validator |-> "reject",  messageKey |-> ""],
    [validator |-> "reject",  messageKey |-> "noAdminUsername"],
    [validator |-> "boom",    messageKey |-> ""] }

\* The rules that can be added to a field rule c, each as the rule it gives
OneMore(c) ==
    (IF c.type \in {"string", "number", "date"} /\ ~c.min.has
        THEN {[c EXCEPT !.min = Some(n)] : n \in Params} ELSE {})
    \cup (IF c.type \in {"string", "number", "date"} /\ ~c.max.has
        THEN {[c EXCEPT !.max = Some(n)] : n \in Params} ELSE {})
    \cup (IF c.type = "string" /\ ~c.length.has
        THEN {[c EXCEPT !.length = Some(MaxNum)]} ELSE {})
    \cup (IF c.type = "string" /\ ~c.email THEN {[c EXCEPT !.email = TRUE]} ELSE {})
    \cup (IF c.type = "string" /\ c.regex = ""
        THEN {[c EXCEPT !.regex = r] : r \in {LowerPattern, BadPattern}}
        ELSE {})
    \cup (IF c.type \in {"string", "number"} /\ c.equals = NoEquals
        THEN {[c EXCEPT !.equals = EqualsField("pw")]} ELSE {})
    \cup (IF c.type = "boolean" /\ c.equals = NoEquals
        THEN {[c EXCEPT !.equals = EqualsBool(b)] : b \in BOOLEAN} ELSE {})
    \cup (IF c.type \in {"string", "number"} /\ c.notEquals = ""
        THEN {[c EXCEPT !.notEquals = "pw"]} ELSE {})
    \cup (IF c.type # "date" /\ c.customValidators = <<>>
        THEN {[c EXCEPT !.customValidators = << v >>] : v \in Validators} ELSE {})
    \cup (IF c.type # "date" /\ Len(c.customValidators) = 1
        THEN {[c EXCEPT !.customValidators = Append(@, v)] :
                 v \in {w \in Validators : w.validator = "reject"}}
        ELSE {})

RECURSIVE WithRules(_, _)
\* The field rules of type t with at most n optional rules
WithRules(t, n) ==
    IF n = 0 THEN {[Rule(t) EXCEPT !.required = r] : r \in BOOLEAN}
    ELSE LET less == WithRules(t, n - 1) IN less \cup UNION {OneMore(c) : c \in less}

\* The values a field of declared type t is given
ValuesFor(t) ==
    {Undefined, Null, Str("")}
    \cup (IF t = "string"
          THEN {Str(x) : x \in {"jo", "abc", "a@b.c", "admin"}} \cup {Num(2)}
          ELSE IF t = "number" THEN {Num(n) : n \in 0..(MaxNum + 1)} \cup {Str("jo")}
          ELSE IF t = "boolean" THEN {Bool(TRUE), Bool(FALSE), Num(0)}
          ELSE {DateOf(0), DateOf(MaxNum), Num(2)})

\* The values the field named by equals / notEquals is given
OtherValues == {Undefined, Str("abc"), Num(2)}

FieldOfType == [t \in {"string", "number", "boolean", "date"} |->
    IF t = "string" THEN "user" ELSE IF t = "number" THEN "age"
    ELSE IF t = "boolean" THEN "ok" ELSE "born"]

NoData == [k \in DataKeys |-> Undefined]

\* An override tree with no leaf set (also: customMessages undefined)
NoLeaves == [k \in {"required", "invalid_type", "min", "max", "length", "email", "regex",
                    "equals", "notEquals"} \cup MessageKeys |-> NoProv]
NoCustomMessages == [
    required |-> NoProv, invalid_type |-> NoProv,
    string |-> [min |-> NoProv, max |-> NoProv, length |-> NoProv,
                email |-> NoProv, regex |-> NoProv],
    number |-> [min |-> NoProv, max |-> NoProv],
    equals |-> NoProv, notEquals |-> NoProv,
    fields |-> [f \in DataKeys |-> NoLeaves],
    custom |-> [k \in MessageKeys |-> NoProv] ]

\* The leaves of customMessages.fields[f]: none set ("none"); functions where
\* the rule has a parameter and strings elsewhere ("proper"); strings
\* everywhere ("literal"); or as "proper", each text starting with the
\* capitalized field name ("named")
FieldLeaves(mode, f) ==
    IF mode = "proper" THEN [
        required        |-> Lit("Please fill in " \o f),
        invalid_type    |-> Lit("Wrong kind of value for " \o f),
        min             |-> Fn("Give " \o f \o " at least ", ""),
        max             |-> Fn("Give " \o f \o " at most ", ""),
        length          |-> Fn("Give " \o f \o " exactly ", ""),
        email           |-> Lit("No email address in " \o f),
        regex           |-> Lit("Bad characters in " \o f),
        equals          |-> Fn("Repeat ", " in " \o f),
        notEquals       |-> Fn("Do not repeat ", " in " \o f),
        noAdminUsername |-> Fn("Reserved: ", " in " \o f) ]
    ELSE IF mode = "literal" THEN [
        required        |-> Lit("Empty " \o f),
        invalid_type    |-> Lit("Mistyped " \o f),
        min             |-> Lit("Too small " \o f),
        max             |-> Lit("Too big " \o f),
        length          |-> Lit("Wrong size " \o f),
        email           |-> Lit("Not an email " \o f),
        regex           |-> Lit("Not matching " \o f),
        equals          |-> Lit("Not repeated " \o f),
        notEquals       |-> Lit("Repeated " \o f),
        noAdminUsername |-> Lit("Reserved " \o f) ]
    ELSE IF mode = "named" THEN [
        required        |-> Lit(formattedFieldName(f) \o " is required"),
        invalid_type    |-> Lit(formattedFieldName(f) \o " has the wrong type"),
        min             |-> Fn(formattedFieldName(f) \o " must be at least ", ""),
        max             |-> Fn(formattedFieldName(f) \o " must be at most ", ""),
        length          |-> Fn(formattedFieldName(f) \o " must be exactly ", ""),
        email           |-> Lit(formattedFieldName(f) \o " is no email address"),
        regex           |-> Lit(formattedFieldName(f) \o " has bad characters"),
        equals          |-> Fn(formattedFieldName(f) \o " must repeat ", ""),
        notEquals       |-> Fn(formattedFieldName(f) \o " must not repeat ", ""),
        noAdminUsername |-> Lit(formattedFieldName(f) \o " is reserved") ]
    ELSE NoLeaves

FieldModes == {"none", "proper", "literal", "named"}

\* An override tree: the field level in one of FieldModes, the type level
\* (with equals / notEquals) set or not, the general codes set or not,
\* custom[noAdminUsername] absent ("none"), a string ("lit") or a function ("fn")
Tree(fieldMode, typeLevel, general, customMode) == [
    required     |-> IF general THEN Lit("This field cannot be empty") ELSE NoProv,
    invalid_type |-> IF general THEN Lit("Invalid value type") ELSE NoProv,
    string |-> [
        min    |-> IF typeLevel THEN Fn("At least ", " characters required") ELSE NoProv,
        max    |-> IF typeLevel THEN Fn("Cannot exceed ", " characters") ELSE NoProv,
        length |-> IF typeLevel THEN Fn("Exactly ", " characters required") ELSE NoProv,
        email  |-> IF typeLevel THEN Lit("Please enter a valid email address") ELSE NoProv,
        regex  |-> IF typeLevel THEN Lit("Contains invalid characters") ELSE NoProv ],
    number |-> [
        min |-> IF typeLevel THEN Fn("Value must be at least ", "") ELSE NoProv,
        max |-> IF typeLevel THEN Fn("Value must be at most ", "") ELSE NoProv ],
    equals    |-> IF typeLevel THEN Fn("This field must match the ", " field") ELSE NoProv,
    notEquals |-> IF typeLevel THEN Fn("This field must differ from the ", " field")
                  ELSE NoProv,
    fields |-> [f \in DataKeys |-> FieldLeaves(fieldMode, f)],
    custom |-> [k \in MessageKeys |->
                  IF customMode = "lit" THEN Lit("Admin username cannot be used")
                  ELSE IF customMode = "fn" THEN Fn("The name ", " cannot be used")
                  ELSE NoProv] ]

\* Whether c carries a custom validator
HasValidators(c) == Len(c.customValidators) > 0

UsesOther(c) ==
    \/ c.equals.k = "field"
    \/ c.notEquals # ""
    \/ \E k \in 1..Len(c.customValidators) : c.customValidators[k].messageKey # ""

\* A call: the three arguments of validate
Given(sch, d, l, cm) ==
    /\ schema = sch
    /\ data = d
    /\ options = [lang |-> l, customMessages |-> cm]

\* Calls on a schema of one field carrying up to MaxRules rules, no overrides
OneFieldCalls ==
    \E t \in {"string", "number", "boolean", "date"} :
    \E c \in WithRules(t, MaxRules) :
    \E v \in ValuesFor(t) :
    \E o \in (IF UsesOther(c) THEN OtherValues ELSE {Undefined}) :
    \E l \in {"en", "tr"} :
        Given(<< [name |-> FieldOfType[t], cfg |-> c] >>,
              [NoData EXCEPT ![FieldOfType[t]] = v, !["pw"] = o],
              l, NoCustomMessages)

\* Calls on a schema of one field carrying at most one rule, under every
\* override tree that the field's rules can read
OverrideCalls ==
    \E t \in {"string", "number", "boolean", "date"} :
    \E c \in WithRules(t, 1) :
    \E v \in ValuesFor(t) :
    \E o \in (IF UsesOther(c) THEN OtherValues ELSE {Undefined}) :
    \E fm \in FieldModes : \E tl \in BOOLEAN : \E g \in BOOLEAN :
    \E l \in (IF fm = "none" THEN {"en", "tr"} ELSE {"en"}) :
    \E um \in (IF HasValidators(c) THEN {"none", "lit", "fn"} ELSE {"none"}) :
        Given(<< [name |-> FieldOfType[t], cfg |-> c] >>,
              [NoData EXCEPT ![FieldOfType[t]] = v, !["pw"] = o],
              l, Tree(fm, tl, g, um))

\* Calls on a schema of one field in a language out of codes
LanguageCalls(codes) ==
    \E t \in {"string", "number", "boolean", "date"} :
    \E c \in WithRules(t, 1) :
    \E v \in ValuesFor(t) :
    \E o \in (IF UsesOther(c) THEN OtherValues ELSE {Undefined}) :
    \E l \in codes :
    \E tl \in BOOLEAN :
        Given(<< [name |-> FieldOfType[t], cfg |-> c] >>,
              [NoData EXCEPT ![FieldOfType[t]] = v, !["pw"] = o],
              l, Tree("none", tl, FALSE, "none"))

MaxFields == 2    \* fields of a schema of several fields

\* The entries the schemas of several fields are made of
Entries ==
    { [name |-> "user", cfg |-> c] : c \in {
        [Rule("string") EXCEPT !.required = TRUE, !.min = Some(MaxNum)],
        [Rule("string") EXCEPT !.equals = EqualsField("pw"),
            !.customValidators = << [validator |-> "noAdmin", messageKey |-> ""] >>],
        [Rule("string") EXCEPT !.min = Some(MaxNum), !.email = TRUE,
            !.customValidators = << [validator |-> "boom", messageKey |-> ""] >>] } }
    \cup { [name |-> "pw", cfg |-> c] : c \in {
        [Rule("string") EXCEPT !.required = TRUE],
        [Rule("string") EXCEPT !.required = TRUE, !.max = Some(1), !.regex = BadPattern] } }
    \cup { [name |-> "age", cfg |-> c] : c \in {
        [Rule("number") EXCEPT !.min = Some(MaxNum)],
        [Rule("number") EXCEPT !.required = TRUE, !.max = Some(1), !.notEquals = "pw"] } }
    \cup { [name |-> "ok", cfg |-> c] : c \in {
        [Rule("boolean") EXCEPT !.required = TRUE, !.equals = EqualsBool(TRUE)] } }

\* The values the fields of those schemas are given
ValuesOf(name) ==
    IF name \in {"user", "pw"} THEN {Undefined, Str("jo"), Str("admin")}
    ELSE IF name = "age" THEN {Str(""), Num(2), Num(MaxNum)}
    ELSE {Null, Bool(TRUE), Bool(FALSE)}

RECURSIVE Schemas(_)
\* The schemas of n entries with distinct names
Schemas(n) ==
    IF n = 0 THEN { <<>> }
    ELSE { Append(sch, e) : <<sch, e>> \in
             { p \in Schemas(n - 1) \X Entries :
                 \A k \in 1..Len(p[1]) : p[1][k].name # p[2].name } }

RECURSIVE Records(_, _)
\* The records that give a value to each of the first k fields of sch
Records(sch, k) ==
    IF k = 0 THEN { NoData }
    ELSE { [d EXCEPT ![sch[k].name] = v] :
             <<d, v>> \in Records(sch, k - 1) \X ValuesOf(sch[k].name) }

\* Calls on a schema of several fields
ManyFieldCalls ==
    \E n \in 2..MaxFields :
    \E sch \in Schemas(n) :
    \E d \in Records(sch, n) :
    \E l \in {"en", "tr"} :
    \E cm \in {NoCustomMessages} \cup
              (IF l = "en" THEN {Tree("proper", TRUE, TRUE, "none"),
                                 Tree("literal", FALSE, FALSE, "none")}
               ELSE {}) :
        Given(sch, d, l, cm)

-----------------------------------------------------------------------------
(* The state machine: one call of validate *)

\* No call has started
Fresh ==
    /\ pc = "idle"
    /\ messages_ = NotADictionary
    /\ i = 0
    /\ errors = <<>>
    /\ result = <<>>
    /\ emitted = <<>>
    /\ raised = <<>>
    /\ calls = <<>>
    /\ shape = <<>>
    /\ issues = <<>>
    /\ translated = <<>>
    /\ earlier = <<>>

\* Calls in the registered languages and in a code that is not registered
Init ==
    /\ (OneFieldCalls \/ OverrideCalls \/ LanguageCalls({"de", ""}) \/ ManyFieldCalls)
    /\ Fresh

\* Calls in any language code, the keys an object literal inherits included
InitAnyCode ==
    /\ LanguageCalls({"en", "tr", "de"} \cup InheritedKeys)
    /\ Fresh

inputs == <<schema, data, options>>

\* The state of validate, the state of the other path
direct == <<messages_, i, errors, result, emitted, raised, calls>>
pipeline == <<shape, issues, translated>>

fieldName == schema[i].name
fieldConfig == schema[i].cfg
value == data[fieldName]

\* The running call's progress, as the loop body takes it
progress == [errors |-> errors, emitted |-> emitted, raised |-> raised,
             calls |-> calls, threw |-> FALSE]

\* What one turn of the loop leaves
turn == loopBody(progress, fieldName, fieldConfig, data, messages_, options.customMessages)

\* The turn ends and the loop goes on
Continue(acc) ==
    /\ errors' = acc.errors
    /\ emitted' = acc.emitted
    /\ raised' = acc.raised
    /\ calls' = acc.calls
    /\ i' = i + 1
    /\ UNCHANGED <<inputs, earlier, pc, messages_, result, pipeline>>

\* A variant that fetches the dictionary once and keeps it for later calls
CallReusesDictionary ==
    /\ pc = "idle"
    /\ pc' = "loop"
    /\ messages_' = IF messages_ = NotADictionary THEN getMessages(options.lang)
                    ELSE messages_
    /\ i' = 1
    /\ errors' = <<>>
    /\ UNCHANGED <<inputs, earlier, result, emitted, raised, calls, pipeline>>

\* validate is entered: the dictionary is fetched, errors is empty
Call ==
    /\ pc = "idle"
    /\ pc' = "loop"
    /\ messages_' = getMessages(options.lang)
    /\ i' = 1
    /\ errors' = <<>>
    /\ UNCHANGED <<inputs, earlier, result, emitted, raised, calls, pipeline>>

\* Required check: the field is reported and left
RequiredCheck ==
    /\ pc = "loop" /\ i <= Len(schema)
    /\ missingRequired(fieldConfig, value)
    /\ Continue(turn)

\* A value that is not present and not required: the field is skipped
SkipAbsent ==
    /\ pc = "loop" /\ i <= Len(schema)
    /\ ~missingRequired(fieldConfig, value) /\ absent(value)
    /\ Continue(turn)

\* Type check: the value is of another type, the field is reported and left
TypeCheck ==
    /\ pc = "loop" /\ i <= Len(schema)
    /\ ~missingRequired(fieldConfig, value) /\ ~absent(value)
    /\ typeError(fieldConfig, value)
    /\ Continue(turn)

\* The rules of a present value of the declared type, none of them throwing
FieldRules ==
    /\ pc = "loop" /\ i <= Len(schema)
    /\ ~missingRequired(fieldConfig, value) /\ ~absent(value)
    /\ ~typeError(fieldConfig, value)
    /\ ~turn.threw
    /\ Continue(turn)

\* A variant that keeps the failures accumulated before the exception
CatchKeepsErrors ==
    /\ pc = "loop" /\ i <= Len(schema)
    /\ turn.threw
    /\ pc' = "caught"
    /\ result' = Append(turn.errors, GenericError)
    /\ errors' = turn.errors
    /\ emitted' = turn.emitted
    /\ raised' = turn.raised
    /\ calls' = turn.calls
    /\ UNCHANGED <<inputs, earlier, messages_, i, pipeline>>

\* The rules of a field throw: catch (error) returns the general message
Catch ==
    /\ pc = "loop" /\ i <= Len(schema)
    /\ turn.threw
    /\ pc' = "caught"
    /\ result' = <<GenericError>>
    /\ errors' = turn.errors
    /\ emitted' = turn.emitted
    /\ raised' = turn.raised
    /\ calls' = turn.calls
    /\ UNCHANGED <<inputs, earlier, messages_, i, pipeline>>

\* The loop is over: return errors
Return ==
    /\ pc = "loop" /\ i > Len(schema)
    /\ pc' = "returned"
    /\ result' = errors
    /\ UNCHANGED <<inputs, earlier, messages_, i, errors, emitted, raised, calls, pipeline>>

Next == Call \/ RequiredCheck \/ SkipAbsent \/ TypeCheck \/ FieldRules \/ Catch \/ Return

Spec == Init /\ [][Next]_vars

\* buildZodSchema(schema) returns
Convert ==
    /\ pc = "idle"
    /\ ~buildZodSchema(schema).threw
    /\ shape' = buildZodSchema(schema).shape
    /\ pc' = "converted"
    /\ UNCHANGED <<inputs, earlier, direct, issues, translated>>

\* buildZodSchema(schema) throws
ConvertThrows ==
    /\ pc = "idle"
    /\ buildZodSchema(schema).threw
    /\ pc' = "thrown"
    /\ UNCHANGED <<inputs, earlier, direct, pipeline>>

\* zodSchema.safeParse(data)
SafeParse ==
    /\ pc = "converted"
    /\ issues' = safeParse(shape, data)
    /\ pc' = "parsed"
    /\ UNCHANGED <<inputs, earlier, direct, shape, translated>>

\* translateErrors(error, lang, customMessages, schema) returns
Translate ==
    /\ pc = "parsed"
    /\ LET t == translateErrors(issues, options.lang, options.customMessages, schema)
       IN /\ ~t.threw
          /\ translated' = t.result
    /\ pc' = "translated"
    /\ UNCHANGED <<inputs, earlier, direct, shape, issues>>

\* translateErrors throws
TranslateThrows ==
    /\ pc = "parsed"
    /\ translateErrors(issues, options.lang, options.customMessages, schema).threw
    /\ pc' = "thrown"
    /\ UNCHANGED <<inputs, earlier, direct, pipeline>>

NextPipeline == Convert \/ ConvertThrows \/ SafeParse \/ Translate \/ TranslateThrows

\* The same calls, taken through the schema converter and the error translator
SpecPipeline == Init /\ [][NextPipeline]_vars

SpecAnyCode == InitAnyCode /\ [][Next]_vars

\* Issues translateErrors may be handed: of a field or of the whole object
\* (empty path), with the library's text, a refinement's text or no text
AnyIssues == {
    Issue("too_small", "user", "string", Some(1), NoNum, "",
          "String must contain at least 1 character(s)"),
    Issue("too_small", "age", "number", Some(1), NoNum, "",
          "Number must be greater than or equal to 1"),
    Issue("too_big", "age", "number", NoNum, Some(1), "",
          "Number must be less than or equal to 1"),
    Issue("invalid_type", "user", "", NoNum, NoNum, "", "Required"),
    Issue("invalid_type", "", "", NoNum, NoNum, "", "Required"),
    Issue("custom", "user", "", NoNum, NoNum, "", "Invalid input"),
    Issue("custom", "user", "", NoNum, NoNum, "", ""),
    Issue("custom", "", "", NoNum, NoNum, "", "Invalid input"),
    Issue("custom", "", "", NoNum, NoNum, "", "") }

\* The issue lists of up to two issues
IssueLists ==
    {<<>>} \cup {<<a>> : a \in AnyIssues} \cup {<<a, b>> : a \in AnyIssues, b \in AnyIssues}

\* translateErrors is called on an error object of the library
InitTranslate ==
    /\ \E list \in IssueLists :
       \E l \in {"en", "tr"} :
       \E cm \in {NoCustomMessages, Tree("proper", TRUE, TRUE, "none"),
                  Tree("literal", FALSE, FALSE, "none")} :
          /\ Given(<< [name |-> "user",
                       cfg |-> [Rule("string") EXCEPT !.min = Some(1),
                                                      !.equals = EqualsField("pw")]],
                      [name |-> "age",
                       cfg |-> [Rule("number") EXCEPT !.min = Some(1), !.max = Some(1)]] >>,
                   NoData, l, cm)
          /\ issues = list
    /\ pc = "parsed"
    /\ messages_ = NotADictionary
    /\ i = 0
    /\ errors = <<>>
    /\ result = <<>>
    /\ emitted = <<>>
    /\ raised = <<>>
    /\ calls = <<>>
    /\ shape = <<>>
    /\ translated = <<>>
    /\ earlier = <<>>

NextTranslate == Translate \/ TranslateThrows

SpecTranslate == InitTranslate /\ [][NextTranslate]_vars

Done == pc \in {"returned", "caught"}

MaxCalls == 2    \* calls made one after the other

\* The calls made one after the other: one string field with at most one
\* rule, in a registered or an unregistered language, with or without overrides
SessionInputs ==
    {[sch |-> << [name |-> "user", cfg |-> c] >>,
      d   |-> [NoData EXCEPT !["user"] = v],
      l   |-> l,
      cm  |-> cm] :
        c \in {x \in WithRules("string", 1) : ~UsesOther(x)},
        v \in {Undefined, Str("jo"), Str("admin"), Num(2)},
        l \in {"en", "tr", "de"},
        cm \in {NoCustomMessages, Tree("proper", TRUE, TRUE, "none")}}

InitCalls ==
    /\ \E c \in SessionInputs : Given(c.sch, c.d, c.l, c.cm)
    /\ Fresh

\* The caller calls validate again, with other arguments.  Nothing of the
\* call that ended is handed over: validate has no parameter and reads no
\* module-level binding but the catalog; the new call's locals hold nothing
\* it may rely on until Call sets them.
NextCall ==
    /\ Done
    /\ Len(earlier) < MaxCalls - 1
    /\ \E c \in SessionInputs :
          /\ schema' = c.sch
          /\ data' = c.d
          /\ options' = [lang |-> c.l, customMessages |-> c.cm]
    /\ pc' = "idle"
    /\ result' = <<>>
    /\ emitted' = <<>>
    /\ raised' = <<>>
    /\ calls' = <<>>
    /\ earlier' = Append(earlier, [lang |-> options.lang,
                                   overridden |-> options.customMessages # NoCustomMessages])
    /\ UNCHANGED <<messages_, i, errors, pipeline>>

NextCalls == Next \/ NextCall

SpecCalls == InitCalls /\ [][NextCalls]_vars


----------------------------------------------------------------------------
\* What the claims speak of, stated over a call's inputs and its result

\* The position of the field in the schema
place(name) == CHOOSE k \in 1..Len(schema) : schema[k].name = name

\* The entries of a result that belong to a field: each entry opens with the
\* capitalized field name and ": "
own(res, name) ==
    {j \in 1..Len(res) : startsWith(res[j], formattedFieldName(name) \o ": ")}

\* A required field is present: not undefined, not null, not the empty string
Present(v) == v \notin {Undefined, Null, Str("")}

\* A value is given: neither undefined nor null
GivenValue(v) == v \notin {Undefined, Null}

\* The value has the declared type
HasType(v, t) ==
    \/ t = "string"  /\ v.kind = "string"
    \/ t = "number"  /\ v.kind = "number"
    \/ t = "boolean" /\ v.kind = "boolean"
    \/ t = "date"    /\ v.kind = "date"

\* Every constraint the field declares is satisfied by the value
Satisfied(c, v, d) ==
    /\ (c.type = "string" /\ c.min.has)    => Len(v.s) >= c.min.n
    /\ (c.type = "string" /\ c.max.has)    => Len(v.s) <= c.max.n
    /\ (c.type = "string" /\ c.length.has) => Len(v.s) = c.length.n
    /\ (c.type = "string" /\ c.email)      => emailRegexTest(v.s)
    /\ (c.type = "string" /\ c.regex # "") =>
            regexCompiles(c.regex) /\ regexTest(c.regex, v.s)
    /\ (c.type = "number" /\ c.min.has)    => v.n >= c.min.n
    /\ (c.type = "number" /\ c.max.has)    => v.n <= c.max.n
    /\ c.equals.k = "field" => v = d[c.equals.f]
    /\ c.equals.k = "bool"  => v = Bool(c.equals.b)
    /\ c.notEquals # ""          => v # d[c.notEquals]
    /\ \A k \in 1..Len(c.customValidators) :
            invoke(c.customValidators[k].validator, v, d) = Returned(Undefined)

\* The record is valid against the schema
Valid(sch, d) ==
    \A k \in 1..Len(sch) :
        LET c == sch[k].cfg
            v == d[sch[k].name]
        IN /\ c.required => Present(v)
           /\ GivenValue(v) => HasType(v, c.type) /\ Satisfied(c, v, d)

\* C1: a record in which every required field is present (not undefined, null
\* or the empty string), every given value has its declared type and every
\* declared constraint, format flag, comparison and custom predicate is
\* satisfied validates to the empty sequence.
C1_ValidRecordHasNoErrors ==
    (Done /\ Valid(schema, data)) => result = <<>>

\* A valid record of two fields has been validated: one field is required,
\* the other repeats it and a custom validator accepts it
C1_Witness ==
    /\ Done /\ Valid(schema, data) /\ Len(schema) = 2
    /\ \E k \in 1..Len(schema) : schema[k].cfg.required
    /\ \E k \in 1..Len(schema) :
          /\ Len(schema[k].cfg.customValidators) > 0
          /\ schema[k].cfg.equals.k = "field"
          /\ GivenValue(data[schema[k].name])


\* An exception was raised outside the regex rule's own try block
Faulted == \E k \in 1..Len(raised) : raised[k].rule # "regex"

\* C2, as stated: any exception raised during validation (by a custom
\* validator, a message provider or a malformed schema) makes the result the
\* one general message, and validate never throws.
C2_AnyExceptionIsGeneric ==
    (Done /\ raised # <<>>) => result = <<GenericError>>

\* C2, amended: an exception raised anywhere but inside the regex rule's own
\* try block ends the call with exactly the one general message, whatever was
\* accumulated before; an exception inside the regex rule is reported as an
\* entry of the field and the call goes on; validate never throws.
C2_UncaughtExceptionIsGeneric ==
    Done => /\ Faulted  => pc = "caught" /\ result = <<GenericError>>
            /\ ~Faulted => pc = "returned" /\ result = errors

\* A call that had accumulated a failure was ended by an exception
C2_Witness ==
    /\ pc = "caught" /\ Faulted
    /\ errors # <<>>
    /\ result = <<GenericError>>

\* The texts a required message may carry: the field's override, the general
\* override, the selected dictionary's entry
RequiredTexts(name) ==
    { p.a : p \in { q \in { fieldLeaf(options.customMessages, name, "required"),
                            options.customMessages.required,
                            getMessages(options.lang).required } : q.tag = "lit" } }

\* C3: a required field whose value is undefined, null or the empty string
\* contributes exactly one entry, carrying the required message, even when
\* its other rules would fail too (stated for the calls that return their list).
C3_MissingRequiredReportedOnce ==
    pc = "returned" =>
        \A k \in 1..Len(schema) :
            LET name == schema[k].name IN
            (schema[k].cfg.required /\ ~Present(data[name])) =>
                /\ Cardinality(own(result, name)) = 1
                /\ \A j \in own(result, name) :
                      result[j] \in { formattedFieldName(name) \o ": " \o t :
                                         t \in RequiredTexts(name) }

\* A required string field with a minimum length was given the empty string
C3_Witness ==
    /\ pc = "returned"
    /\ \E k \in 1..Len(schema) :
          /\ schema[k].cfg.required
          /\ schema[k].cfg.min.has /\ schema[k].cfg.min.n > 0
          /\ data[schema[k].name] = Str("")
          /\ own(result, schema[k].name) # {}

\* The place of a rule in the order of evaluation within a field
Rank(rule) ==
    CASE rule \in {"required", "invalid_type"} -> 0
      [] rule = "min" -> 1
      [] rule = "max" -> 2
      [] rule = "length" -> 3
      [] rule = "email" -> 4
      [] rule \in {"regex", "regex_error"} -> 5
      [] rule = "equals" -> 6
      [] rule = "notEquals" -> 7
      [] OTHER -> 8

\* The failure a comes before the failure b
Before(a, b) ==
    \/ place(a.field) < place(b.field)
    \/ /\ a.field = b.field
       /\ \/ Rank(a.rule) < Rank(b.rule)
          \/ a.rule = "custom" /\ b.rule = "custom" /\ a.index < b.index

\* C4: the result lists the failures in schema field order, and within a field
\* in the order min, max, length, email, regex, then number min and max, then
\* equals, notEquals, then the custom validators in declaration order
\* (stated for the calls that return their list).
C4_FailuresInEvaluationOrder ==
    pc = "returned" =>
        /\ Len(result) = Len(emitted)
        /\ \A j \in 1..Len(result) :
              startsWith(result[j], formattedFieldName(emitted[j].field) \o ": ")
        /\ \A j1, j2 \in 1..Len(result) :
              j1 < j2 => Before(emitted[j1], emitted[j2])

\* Two fields were reported, one of them for two rules
C4_Witness ==
    /\ pc = "returned" /\ Len(schema) = 2 /\ Len(result) >= 4
    /\ \A k \in 1..2 : Cardinality(own(result, schema[k].name)) >= 2
    /\ \E j \in 1..Len(emitted) : emitted[j].rule = "custom"


\* The text a message provider gives for an argument
Apply(p, arg) == IF p.tag = "fn" THEN p.a \o arg \o p.b ELSE p.a

\* The provider the priority order selects
Chosen(fieldBased, typeBased, default) ==
    IF fieldBased # NoProv THEN fieldBased
    ELSE IF typeBased # NoProv THEN typeBased
    ELSE default

\* The rules of the field are evaluated: its value is given and of its type
Evaluated(c, v) ==
    /\ ~(c.required /\ ~Present(v))
    /\ GivenValue(v)
    /\ HasType(v, c.type)

\* The min, max, length, email and regex rules that v violates, each with the
\* group and key of its message and the message's argument
Violations(c, v) ==
    (IF c.type = "string" /\ c.min.has /\ Len(v.s) < c.min.n
        THEN {[group |-> "string", key |-> "min", arg |-> numeral(c.min.n)]} ELSE {})
    \cup (IF c.type = "string" /\ c.max.has /\ Len(v.s) > c.max.n
        THEN {[group |-> "string", key |-> "max", arg |-> numeral(c.max.n)]} ELSE {})
    \cup (IF c.type = "string" /\ c.length.has /\ Len(v.s) # c.length.n
        THEN {[group |-> "string", key |-> "length", arg |-> numeral(c.length.n)]} ELSE {})
    \cup (IF c.type = "string" /\ c.email /\ ~emailRegexTest(v.s)
        THEN {[group |-> "string", key |-> "email", arg |-> ""]} ELSE {})
    \cup (IF c.type = "string" /\ c.regex # "" /\ regexCompiles(c.regex)
             /\ ~regexTest(c.regex, v.s)
        THEN {[group |-> "string", key |-> "regex", arg |-> ""]} ELSE {})
    \cup (IF c.type = "number" /\ c.min.has /\ v.n < c.min.n
        THEN {[group |-> "number", key |-> "min", arg |-> numeral(c.min.n)]} ELSE {})
    \cup (IF c.type = "number" /\ c.max.has /\ v.n > c.max.n
        THEN {[group |-> "number", key |-> "max", arg |-> numeral(c.max.n)]} ELSE {})

\* C5: for a violated min, max, length, email or regex rule, the field's own
\* override is used when it exists, else the type-level override when it
\* exists, else the catalog default of the selected language (stated for the
\* calls that return their list).
C5_FieldThenTypeThenCatalog ==
    pc = "returned" =>
        \A k \in 1..Len(schema) :
            LET name == schema[k].name
                c == schema[k].cfg
                v == data[name]
                cm == options.customMessages
            IN Evaluated(c, v) =>
                \A x \in Violations(c, v) :
                    \E j \in own(result, name) :
                        result[j] = formattedFieldName(name) \o ": " \o
                            Apply(Chosen(cm.fields[name][x.key], cm[x.group][x.key],
                                         getMessages(options.lang)[x.group][x.key]),
                                  x.arg)

\* A string shorter than its minimum was reported while both a field override
\* and a type-level override of min were set
C5_Witness ==
    /\ pc = "returned"
    /\ \E k \in 1..Len(schema) :
          LET name == schema[k].name IN
          /\ Evaluated(schema[k].cfg, data[name])
          /\ \E x \in Violations(schema[k].cfg, data[name]) : x.key = "min"
          /\ options.customMessages.fields[name].min # NoProv
          /\ options.customMessages.string.min # NoProv

\* C6: a message that already starts with the capitalized field name is
\* emitted as it is; no entry carries the field name twice.
C6_NoSecondPrefix ==
    pc = "returned" =>
        \A j \in 1..Len(result) :
            LET f == formattedFieldName(emitted[j].field)
            IN ~startsWith(result[j], f \o ": " \o f)

\* C7: for the same schema, record, language and overrides, validate and the
\* path buildZodSchema, safeParse, translateErrors give the same ordered list.
C7_BothPathsAgree ==
    pc = "translated" => translated = validate(schema, data, options)

RECURSIVE digitsFrom(_, _)
\* The digits of s from its k-th character on, in order
digitsFrom(s, k) ==
    IF k > Len(s) THEN ""
    ELSE (IF charAt(s, k) \in Digits THEN charAt(s, k) ELSE "") \o digitsFrom(s, k + 1)

\* The rules whose default message comes from the catalog
CatalogRules ==
    {"required", "invalid_type", "min", "max", "length", "email", "regex",
     "equals", "notEquals"}

\* C8: for a fixed schema and record, the results in English and in Turkish
\* have the same number of entries for the same fields in the same order and
\* carry the same numerals; the default texts differ.
C8_LanguagesDifferInTextOnly ==
    (Done /\ options.lang = "tr") =>
        LET en == validate(schema, data, [options EXCEPT !.lang = "en"]) IN
        /\ Len(result) = Len(en)
        /\ \A name \in DataKeys : own(result, name) = own(en, name)
        /\ \A j \in 1..Len(result) : digitsFrom(result[j], 1) = digitsFrom(en[j], 1)
        /\ (pc = "returned" /\ options.customMessages = NoCustomMessages) =>
              \A j \in 1..Len(result) :
                  emitted[j].rule \in CatalogRules => result[j] # en[j]

\* A Turkish call reported two failures, one of them with the numeral MaxNum
C8_Witness ==
    /\ pc = "returned" /\ options.lang = "tr"
    /\ options.customMessages = NoCustomMessages
    /\ Len(result) >= 2
    /\ \E j \in 1..Len(result) :
          /\ emitted[j].rule \in {"min", "max", "length"}
          /\ digitsFrom(result[j], 1) = numeral(MaxNum)

\* C9: a language code that is not registered selects the English dictionary,
\* and the call's result is the one English gives.
C9_UnregisteredCodeIsEnglish ==
    (Done /\ options.lang \notin {"en", "tr"}) =>
        /\ getMessages(options.lang) = enMessages
        /\ result = validate(schema, data, [options EXCEPT !.lang = DEFAULT_LANGUAGE])

\* C10: a custom validator without messageKey that returns an error string
\* contributes exactly that string, prefixed with the field name, whatever
\* overrides are configured (stated for the calls that return their list).
C10_KeylessValidatorKeepsItsText ==
    pc = "returned" =>
        \A k \in 1..Len(schema) :
            LET name == schema[k].name
                c == schema[k].cfg
                v == data[name]
            IN Evaluated(c, v) =>
                \A n \in 1..Len(c.customValidators) :
                    LET r == invoke(c.customValidators[n].validator, v, data) IN
                    (c.customValidators[n].messageKey = "" /\ ~r.threw
                        /\ r.ret.kind = "string") =>
                        \E j \in 1..Len(result) :
                            /\ emitted[j] = [field |-> name, rule |-> "custom", index |-> n]
                            /\ result[j] = formattedFieldName(name) \o ": " \o r.ret.s

\* A validator without messageKey failed while the overrides of the field and
\* of custom were set
C10_Witness ==
    /\ pc = "returned"
    /\ \E j \in 1..Len(emitted) :
          /\ emitted[j].rule = "custom"
          /\ schema[place(emitted[j].field)].cfg
                .customValidators[emitted[j].index].messageKey = ""
          /\ options.customMessages.fields[emitted[j].field].noAdminUsername # NoProv
    /\ options.customMessages.custom.noAdminUsername # NoProv

\* The text a provider of a custom validator's message gives for the value
\* and the record: a function is called with both, a literal is used as is
Apply2(p, v, d) ==
    IF p.tag = "fn" THEN p.a \o show(v) \o p.b \o " (" \o show(d["pw"]) \o ")" ELSE p.a

\* C11: a failing custom validator with messageKey K on field F takes its
\* message from customMessages.fields[F][K] if present, else from
\* customMessages.custom[K] if present, else from the string it returned; a
\* function is called with (value, data), a literal is used as is (stated
\* for the calls that return their list).
C11_KeyedValidatorCascade ==
    pc = "returned" =>
        \A k \in 1..Len(schema) :
            LET name == schema[k].name
                c == schema[k].cfg
                v == data[name]
                cm == options.customMessages
            IN Evaluated(c, v) =>
                \A n \in 1..Len(c.customValidators) :
                    LET K == c.customValidators[n].messageKey
                        r == invoke(c.customValidators[n].validator, v, data)
                    IN (K # "" /\ ~r.threw /\ r.ret.kind = "string") =>
                        \E j \in 1..Len(result) :
                            /\ emitted[j] = [field |-> name, rule |-> "custom", index |-> n]
                            /\ result[j] = formattedFieldName(name) \o ": " \o
                                  (IF cm.fields[name][K] # NoProv
                                   THEN Apply2(cm.fields[name][K], v, data)
                                   ELSE IF cm.custom[K] # NoProv
                                   THEN Apply2(cm.custom[K], v, data)
                                   ELSE r.ret.s)

\* A keyed validator failed while the field's override of its key was a
\* function, the global override was set too, and data.pw was given
C11_Witness ==
    /\ pc = "returned"
    /\ data["pw"] # Undefined
    /\ options.customMessages.custom.noAdminUsername # NoProv
    /\ \E j \in 1..Len(emitted) :
          /\ emitted[j].rule = "custom"
          /\ schema[place(emitted[j].field)].cfg
                .customValidators[emitted[j].index].messageKey # ""
          /\ options.customMessages.fields[emitted[j].field].noAdminUsername.tag = "fn"

\* The text t occurs in s
contains(s, t) ==
    \E a \in 1..(Len(s) - Len(t) + 1) : SubSeq(s, a, a + Len(t) - 1) = t

\* The entries of the result that the rule `rule` of the field pushed
entriesOf(name, rule) ==
    {j \in 1..Len(emitted) : emitted[j].field = name /\ emitted[j].rule = rule}

\* C12: for a field F whose equals names a field T, when F's value is given,
\* of F's type and differs from data[T], exactly one equality failure of F is
\* reported, its message being the field's equals override, else the general
\* equals override, else the catalog's equals, applied to T (a function's text
\* names T); when the two values are identical there is no equality failure
\* (stated for the calls that return their list).
C12_EqualsNamesTheTarget ==
    pc = "returned" =>
        \A k \in 1..Len(schema) :
            LET name == schema[k].name
                c == schema[k].cfg
                v == data[name]
                cm == options.customMessages
                chosen == Chosen(cm.fields[name].equals, cm.equals,
                                 getMessages(options.lang).equals)
            IN (c.equals.k = "field" /\ Evaluated(c, v)) =>
                IF v # data[c.equals.f]
                THEN /\ Cardinality(entriesOf(name, "equals")) = 1
                     /\ \A j \in entriesOf(name, "equals") :
                           /\ result[j] = formattedFieldName(name) \o ": "
                                            \o Apply(chosen, c.equals.f)
                           /\ chosen.tag = "fn" => contains(result[j], c.equals.f)
                ELSE entriesOf(name, "equals") = {}

\* A field that must repeat another was given another value and was reported
\* by the catalog's message
C12_Witness ==
    /\ pc = "returned"
    /\ options.customMessages = NoCustomMessages
    /\ \E k \in 1..Len(schema) :
          /\ schema[k].cfg.equals.k = "field"
          /\ data[schema[k].cfg.equals.f] \notin {Undefined, data[schema[k].name]}
          /\ entriesOf(schema[k].name, "equals") # {}

InvalidTypeTexts(name) ==
    { p.a : p \in { q \in { fieldLeaf(options.customMessages, name, "invalid_type"),
                            options.customMessages.invalid_type,
                            getMessages(options.lang).invalid_type } : q.tag = "lit" } }

\* The value is given (and is not the empty string of a required field) but
\* is not of the declared type
Mistyped(c, v) ==
    /\ GivenValue(v)
    /\ ~(c.required /\ v = Str(""))
    /\ ~HasType(v, c.type)

\* C14: a given value that is not of the field's declared type contributes
\* exactly one entry, an invalid_type failure, and none of the field's
\* type-specific rules, comparisons or custom validators is evaluated
\* (stated for the calls that return their list).
C14_TypeMismatchReportedOnce ==
    pc = "returned" =>
        \A k \in 1..Len(schema) :
            LET name == schema[k].name IN
            Mistyped(schema[k].cfg, data[name]) =>
                /\ Cardinality(own(result, name)) = 1
                /\ \A j \in own(result, name) :
                      /\ emitted[j] = [field |-> name, rule |-> "invalid_type", index |-> 0]
                      /\ result[j] \in { formattedFieldName(name) \o ": " \o t :
                                            t \in InvalidTypeTexts(name) }
                /\ \A n \in 1..Len(calls) : calls[n].field # name

\* A string field with a rule and a custom validator was given a number
C14_Witness ==
    /\ pc = "returned"
    /\ \E k \in 1..Len(schema) :
          /\ schema[k].cfg.type = "string"
          /\ data[schema[k].name].kind = "number"
          /\ schema[k].cfg.min.has
          /\ Len(schema[k].cfg.customValidators) > 0
          /\ own(result, schema[k].name) # {}

\* The min and max rules of a date field that v violates (bounds are timestamps)
DateViolations(c, v) ==
    (IF c.type = "date" /\ c.min.has /\ v.n < c.min.n
        THEN {[group |-> "date", key |-> "min", arg |-> numeral(c.min.n)]} ELSE {})
    \cup (IF c.type = "date" /\ c.max.has /\ v.n > c.max.n
        THEN {[group |-> "date", key |-> "max", arg |-> numeral(c.max.n)]} ELSE {})

\* C15: for a given value of the declared type, every constraint declared for
\* the field's type is evaluated (string, number and date rules alike) and
\* each violated constraint contributes a failure of its own.
C15_EveryDeclaredConstraintReported ==
    pc = "returned" =>
        \A k \in 1..Len(schema) :
            LET name == schema[k].name
                c == schema[k].cfg
                v == data[name]
            IN Evaluated(c, v) =>
                \A x \in Violations(c, v) \cup DateViolations(c, v) :
                    \E j \in own(result, name) : emitted[j].rule = x.key

\* The field's regex rule is reached and its pattern does not compile
BadRegex(c, v) ==
    Evaluated(c, v) /\ c.type = "string" /\ c.regex # "" /\ ~regexCompiles(c.regex)

\* The schema without the patterns that do not compile
withoutBadRegex(sch) ==
    [k \in 1..Len(sch) |->
        IF sch[k].cfg.regex # "" /\ ~regexCompiles(sch[k].cfg.regex)
        THEN [sch[k] EXCEPT !.cfg.regex = ""]
        ELSE sch[k]]

\* The entry is the fixed report of a pattern that does not compile
isRegexError(entry) ==
    \E name \in DataKeys : entry = formattedFieldName(name) \o ": " \o RegexError

\* C16: when a string field's pattern does not compile, the call reports one
\* fixed entry "<Field>: Invalid regex pattern" for that field and otherwise
\* behaves as the same call without that pattern: the failures before and
\* after it, of that field and of the others, are the same, and the call ends
\* with the generic message only if it would without the pattern.
C16_BadPatternIsOneEntry ==
    (Done /\ \E k \in 1..Len(schema) : BadRegex(schema[k].cfg, data[schema[k].name])) =>
        LET other == validate(withoutBadRegex(schema), data, options) IN
        /\ pc = "caught" => other = <<GenericError>>
        /\ pc = "returned" =>
              /\ SelectSeq(result, LAMBDA e : ~isRegexError(e)) = other
              /\ \A k \in 1..Len(schema) :
                    BadRegex(schema[k].cfg, data[schema[k].name]) =>
                        Cardinality({j \in own(result, schema[k].name) :
                                        isRegexError(result[j])}) = 1

\* A pattern that does not compile was reported between two other failures
C16_Witness ==
    /\ pc = "returned"
    /\ \E j \in 2..(Len(result) - 1) :
          /\ isRegexError(result[j])
          /\ emitted[j - 1].field = emitted[j].field

\* The field fails its required check or its type check
Stopped(c, v) == (c.required /\ ~Present(v)) \/ Mistyped(c, v)

\* The names of the fields of the call that fail one of the two checks
StoppedFields ==
    {schema[k].name : k \in {m \in 1..Len(schema) :
                                Stopped(schema[m].cfg, data[schema[m].name])}}

\* The schema without the fields that fail one of the two checks
withoutStopped ==
    SelectSeq(schema, LAMBDA e : e.name \notin StoppedFields)

\* The entries of the result that were reported for the other fields, in order
entriesOfOthers ==
    LET kept == SelectSeq([j \in 1..Len(result) |-> j],
                          LAMBDA j : emitted[j].field \notin StoppedFields)
    IN [k \in 1..Len(kept) |-> result[kept[k]]]

\* C17: a field that fails its required or its type check stops only its own
\* rules: the entries reported for all the other fields, before and after it,
\* are exactly the result of the same call on the schema without the failing
\* fields, and the call ends with the generic message only if that call does.
C17_FailingFieldStopsOnlyItself ==
    (Done /\ StoppedFields # {}) =>
        LET other == validate(withoutStopped, data, options) IN
        /\ pc = "caught" => other = <<GenericError>>
        /\ pc = "returned" => entriesOfOthers = other

\* The first field failed its required or type check and a later field was
\* still checked and reported
C17_Witness ==
    /\ pc = "returned"
    /\ Len(schema) >= 2
    /\ schema[1].name \in StoppedFields
    /\ Len(result) >= 2
    /\ emitted[1].field = schema[1].name
    /\ emitted[2].field = schema[2].name
    /\ emitted[2].rule \notin {"required", "invalid_type"}

C19_OneMessagePerIssue ==
    pc = "translated" =>
        /\ Len(translated) = Len(issues)
        /\ \A k \in 1..Len(issues) :
              k <= Len(translated) =>
                  translated[k] =
                      getTranslatedMessage(issues[k], issues[k].path,
                                           options.customMessages,
                                           getMessages(options.lang), schema).s

\* The field names that have an entry in the converted schema's shape
shapeNames == {shape[j].name : j \in 1..Len(shape)}

\* C20: buildZodSchema gives every field of the rule schema an entry in the
\* shape of the converted schema (the same set of field names); in particular
\* a field with a boolean-literal equals has an entry, the one that carries
\* the refinement accepting only the expected boolean.
C20_EveryFieldHasAnEntry ==
    pc = "converted" =>
        /\ shapeNames = {schema[k].name : k \in 1..Len(schema)}
        /\ \A k \in 1..Len(schema) :
              schema[k].cfg.equals.k = "bool" => schema[k].name \in shapeNames

\* C21: the entry of a missing required field F carries
\* customMessages.fields[F].required if it is set, else customMessages.required
\* if it is set, else the required text of the selected language's catalog
\* (stated for the calls that return their list).
C21_RequiredFieldThenGeneralThenCatalog ==
    pc = "returned" =>
        \A k \in 1..Len(schema) :
            LET name == schema[k].name
                cm == options.customMessages
            IN (schema[k].cfg.required /\ ~Present(data[name])) =>
                /\ entriesOf(name, "required") # {}
                /\ \A j \in entriesOf(name, "required") :
                      result[j] = formattedFieldName(name) \o ": " \o
                          Chosen(fieldLeaf(cm, name, "required"), cm.required,
                                 getMessages(options.lang).required).a

\* A missing required field was reported while both the field's override and
\* the general override of required were set
C21_Witness ==
    /\ pc = "returned"
    /\ options.customMessages.required # NoProv
    /\ \E k \in 1..Len(schema) :
          /\ schema[k].cfg.required /\ ~Present(data[schema[k].name])
          /\ fieldLeaf(options.customMessages, schema[k].name, "required") # NoProv
          /\ entriesOf(schema[k].name, "required") # {}

C23_InvalidTypeFieldThenGeneralThenCatalog ==
    pc = "returned" =>
        \A k \in 1..Len(schema) :
            LET name == schema[k].name
                cm == options.customMessages
            IN Mistyped(schema[k].cfg, data[name]) =>
                /\ entriesOf(name, "invalid_type") # {}
                /\ \A j \in entriesOf(name, "invalid_type") :
                      result[j] = formattedFieldName(name) \o ": " \o
                          Chosen(fieldLeaf(cm, name, "invalid_type"), cm.invalid_type,
                                 getMessages(options.lang).invalid_type).a

\* C24: when a boolean-literal equals fails on field F and
\* customMessages.fields[F].equals is set, the entry carries that override (a
\* literal as it is) and not the catalog's boolean.true / boolean.false text
\* (stated for the calls that return their list).
C24_BooleanEqualsUsesFieldOverride ==
    pc = "returned" =>
        \A k \in 1..Len(schema) :
            LET name == schema[k].name
                c == schema[k].cfg
                v == data[name]
                leaf == fieldLeaf(options.customMessages, name, "equals")
                catalog == getMessages(options.lang).boolean
            IN (c.equals.k = "bool" /\ Evaluated(c, v) /\ v # Bool(c.equals.b)
                    /\ leaf # NoProv) =>
                /\ entriesOf(name, "equals") # {}
                /\ \A j \in entriesOf(name, "equals") :
                      /\ result[j] # formattedFieldName(name) \o ": " \o
                            (IF c.equals.b THEN catalog.true.a ELSE catalog.false.a)
                      /\ leaf.tag = "lit" =>
                            result[j] = formattedFieldName(name) \o ": " \o leaf.a

\* The field is not required and its value is undefined or null
Skipped(c, v) == ~c.required /\ ~GivenValue(v)

\* C25: a field that is not required and whose value is undefined or null is
\* skipped: at no point of the call is there a failure of that field, an
\* exception raised by one of its rules or a call of one of its validators,
\* and the returned list has no entry of the field.
C25_AbsentOptionalFieldIsSkipped ==
    \A k \in 1..Len(schema) :
        LET name == schema[k].name IN
        Skipped(schema[k].cfg, data[name]) =>
            /\ \A j \in 1..Len(emitted) : emitted[j].field # name
            /\ \A j \in 1..Len(raised) : raised[j].field # name
            /\ \A j \in 1..Len(calls) : calls[j].field # name
            /\ pc = "returned" => own(result, name) = {}

\* The first of two fields, optional and carrying a rule and a validator, was
\* not given and the call went on to report the second field
C25_Witness ==
    /\ pc = "returned"
    /\ Len(schema) = 2
    /\ Skipped(schema[1].cfg, data[schema[1].name])
    /\ Len(schema[1].cfg.customValidators) > 0
    /\ own(result, schema[2].name) # {}

\* The issue reports a violated bound of a number field
NumberBound(issue) ==
    issue.type = "number" /\ issue.code \in {"too_small", "too_big"}

\* C26: for a too_small or too_big issue of type number on field F,
\* translateErrors takes the message from customMessages.fields[F].min / .max
\* if it is set, else from customMessages.number.min / .max if it is set,
\* else from the catalog, each applied to the issue's bound.
C26_NumberBoundFieldThenTypeThenCatalog ==
    pc = "translated" =>
        \A k \in 1..Len(issues) :
            LET issue == issues[k]
                key == IF issue.code = "too_small" THEN "min" ELSE "max"
                bound == IF issue.code = "too_small" THEN issue.minimum ELSE issue.maximum
                cm == options.customMessages
            IN NumberBound(issue) =>
                \E j \in 1..Len(translated) :
                    translated[j] = formattedFieldName(issue.path) \o ": " \o
                        Apply(Chosen(fieldLeaf(cm, issue.path, key), cm.number[key],
                                     getMessages(options.lang).number[key]),
                              numeral(bound.n))

\* C27: a custom issue without messageKey resolves to the issue's own message,
\* prefixed with the field name, whatever the override tree contains and
\* whatever rules the owning field declares (stated for the issues that have a
\* field or a text).
C27_KeylessCustomIssueKeepsItsText ==
    pc = "translated" =>
        \A k \in 1..Len(issues) :
            LET issue == issues[k] IN
            (issue.code = "custom" /\ issue.messageKey = ""
                /\ (issue.path # "" \/ issue.message # "")) =>
                \E j \in 1..Len(translated) :
                    translated[j] =
                        IF issue.path = "" THEN issue.message
                        ELSE formattedFieldName(issue.path) \o ": " \o issue.message

\* C28: the empty string counts as absent only for required fields.  On a
\* string field that is not required it is a value like any other: the field's
\* rules run and every rule the empty string violates (a min greater than 0,
\* email, regex, ...) is reported, and no required failure is; on a required
\* field the only entry is the required failure (stated for the calls that
\* return their list).
C28_EmptyStringAbsentOnlyIfRequired ==
    pc = "returned" =>
        \A k \in 1..Len(schema) :
            LET name == schema[k].name
                c == schema[k].cfg
            IN (c.type = "string" /\ data[name] = Str("")) =>
                IF c.required
                THEN /\ Cardinality(own(result, name)) = 1
                     /\ \A j \in own(result, name) : emitted[j].rule = "required"
                ELSE /\ entriesOf(name, "required") = {}
                     /\ \A x \in Violations(c, Str("")) : entriesOf(name, x.key) # {}
                     /\ (c.min.has /\ c.min.n > 0) => entriesOf(name, "min") # {}

\* An optional string field with a minimum length was given the empty string
\* and the minimum was reported
C28_Witness ==
    /\ pc = "returned"
    /\ \E k \in 1..Len(schema) :
          /\ schema[k].cfg.type = "string" /\ ~schema[k].cfg.required
          /\ schema[k].cfg.min.has /\ schema[k].cfg.min.n > 0
          /\ data[schema[k].name] = Str("")
          /\ entriesOf(schema[k].name, "min") # {}

\* C29: within one call, the validators of a field are invoked one after the
\* other in declaration order, each at most once, with the field's value and
\* the whole record; only for a field whose value is given and of its type,
\* and only when the rules before them (type rules, equals, notEquals) have
\* run without ending the call; the fields follow the schema's order; each
\* invocation contributes at most one failure, placed after the failures of
\* the field's other rules.
C29_ValidatorsOnceInOrderAfterRules ==
    /\ \A n \in 1..Len(calls) :
          LET name == calls[n].field
              c == schema[place(name)].cfg
          IN /\ Evaluated(c, data[name])
             /\ calls[n].value = data[name]
             /\ calls[n].record = data
             /\ calls[n].index \in 1..Len(c.customValidators)
             /\ IF n > 1 /\ calls[n - 1].field = name
                THEN calls[n].index = calls[n - 1].index + 1
                ELSE /\ calls[n].index = 1
                     /\ n > 1 => place(calls[n - 1].field) < place(name)
             /\ \A r \in 1..Len(raised) :
                   raised[r].field = name => raised[r].rule \in {"custom", "regex"}
             /\ Cardinality({j \in 1..Len(emitted) :
                    emitted[j] = [field |-> name, rule |-> "custom",
                                  index |-> calls[n].index]}) <= 1
    /\ \A j \in 1..Len(emitted) :
          emitted[j].rule = "custom" =>
              /\ \E n \in 1..Len(calls) :
                    calls[n].field = emitted[j].field /\ calls[n].index = emitted[j].index
              /\ \A j2 \in 1..Len(emitted) :
                    (emitted[j2].field = emitted[j].field /\ emitted[j2].rule # "custom")
                        => j2 < j

\* Two validators of one field were invoked in turn and a failure of a
\* validator was reported
C29_Witness ==
    /\ pc = "returned"
    /\ Len(calls) >= 2
    /\ calls[1].field = calls[2].field
    /\ \E j \in 1..Len(emitted) : emitted[j].rule = "custom"

====
